---- MODULE Spec2Model ----
(***************************************************************************)
(* A model of bunny-route: the connection manager (ConnectionCore), the    *)
(* RPC client (Producer) and the server (Consumer).                        *)
(*                                                                         *)
(* Every asynchronous method is cut at its await points: one action per    *)
(* synchronous stretch of code.  The transport (amqplib) and the broker    *)
(* are the environment: connect attempts resolve or fail, timers fire,     *)
(* connections and channels close.                                         *)
(***************************************************************************)
EXTENDS Integers, Sequences, FiniteSets, TLC

(***************************************************************************)
(* Bounds of the model.                                                    *)
(***************************************************************************)
MaxStarts == 3        \* amqp.connect calls, connection manager alone
MaxStartsChan == 2    \* amqp.connect calls, connection manager with channels
MaxReg == 2           \* RegisteredChannel objects ever created
MaxExtraChan == 1     \* channels opened beyond the first of each entry
MaxN == 2             \* largest finite reconnect.maxAttempts tried
MaxSlots == 2         \* connectWithTimeout calls awaited at once
MaxReq == 2           \* send() calls of the client
MaxReplies == 2       \* replies the server sends to one request
MaxClientChan == 3    \* channels the client is given
MaxServerChan == 3    \* channels the server is given
MaxDeliveries == 4    \* deliveries the broker makes to the server
MaxMsg == 2           \* messages clients publish to the server
MaxMsgConsumer == 1   \* the same, where the server's channel comes and goes
MaxRetries == 2       \* largest retryOptions.maxRetries tried
MaxCalls == 2         \* getConnection() calls whose promise is followed
MaxStartsCalls == 2   \* amqp.connect calls, where those promises are followed
MaxMw == 3            \* middlewares registered with use()
MaxGets == 4          \* getInstance() calls
MaxClients == 2       \* clients handed to performGracefulShutdown
MaxPending == 1       \* largest pendingCount a shutdown() returns
MaxListens == 2       \* listen() calls of one server
MaxListenChan == 4    \* channels that server is given

\* Every connection and every connectWithTimeout call comes from one
\* amqp.connect call, every channel from createChannel or a recreation.
MaxConn == MaxStarts
MaxChan == MaxReg + MaxExtraChan

\* DEFAULT_RECONNECT_OPTIONS.maxAttempts is Infinity: a value no counter of
\* the bounded model reaches.
Infinity == 1000

ConnIds == 1..MaxConn
RegIds == 1..MaxReg
ChanIds == 1..MaxChan
SlotIds == 1..MaxSlots

\* The AMQP reply codes of AMQP_NON_RECOVERABLE_ERRORS.
AMQP_NON_RECOVERABLE_ERRORS == {402, 403, 404, 406, 501, 502, 503, 504, 505, 530, 541}

\* Errors the environment raises: an optional reply code (0: none) and the
\* class of the message text.
NoError == [code |-> 0, msg |-> "none"]
TimeoutError == [code |-> 0, msg |-> "Connection timeout"]
ConnectionForced == [code |-> 320, msg |-> "CONNECTION_FORCED"]
AccessRefused == [code |-> 403, msg |-> "ACCESS_REFUSED"]
Errors == {ConnectionForced, AccessRefused}

\* An error with no reply code whose message names the authentication.
AuthenticationFailed == [code |-> 0, msg |-> "authentication"]
ConnectErrors == Errors \cup {AuthenticationFailed}

\* isNonRecoverableError(error)
isNonRecoverableError(error) ==
  IF error = NoError THEN FALSE
  ELSE IF error.code # 0 /\ error.code \in AMQP_NON_RECOVERABLE_ERRORS THEN TRUE
  ELSE IF error.msg \in {"ACCESS_REFUSED", "authentication"} THEN TRUE
  ELSE FALSE

VARIABLES
  \* ---- RMQConnectionManager fields
  state,               \* 'disconnected' | 'connecting' | 'connected' | 'reconnecting'
  connection,          \* current Connection (0: null)
  reconnectAttempt,
  reconnectTimer,      \* the handle: "null", "armed" (its timer is pending), "stale"
  isClosing,
  registeredChannels,  \* the Set<RegisteredChannel>, entries by creation order
  regChannel,          \* registered.channel (0: null)
  regSetup,            \* registered.setup is given
  enabled,             \* reconnectOptions.enabled
  maxAttempts,         \* reconnectOptions.maxAttempts
  \* ---- timers, transport
  armedTimers,         \* reconnect timers pending in the event loop
  connStatus,          \* per connection: "unused" | "open" | "closed"
  connListeners,       \* setupConnectionListeners ran on it
  connCloseCalls,      \* calls of connection.close()
  chanStatus,          \* per channel: "unused" | "open" | "closed"
  chanConn,            \* the connection a channel lives on
  chanReg,             \* the entry the channel's close listener is bound to
  \* ---- calls in flight
  slots,               \* connectWithTimeout calls awaited, and the reconnect() that follows
  latePending,         \* amqp.connect calls still pending after their timeout fired
  startsLeft,          \* amqp.connect calls the model still allows
  closePc,             \* close(): "idle" | "chans" | "conn"
  closeCur,            \* close(): the entry, or the connection, being closed
  wd,                  \* recreateSingleChannel per entry: "idle" | "open" | "setup"
  wdConn,              \* the connection its createChannel was issued on
  \* ---- observations
  events,              \* the events emitted on the bus, in order
  closeReturned,       \* close() returned and the manager was not used since
  closeRequested,      \* close() was ever called
  unregCalled,         \* entries whose channel was passed to unregisterChannel
  resurrected,         \* entries given a channel or a setup run after that
  recov,               \* per entry: outcome of the recovery that emitted 'reconnected' last
  everCurrent,         \* connections that were this.connection at some time
  late,                \* connections that resolved after their timeout fired
  callerError,         \* the error the last failed connectWithTimeout call was rejected with
  callers              \* the promises getConnection() returned, by call order

coreVars == <<state, connection, reconnectAttempt, reconnectTimer, isClosing,
              registeredChannels, regChannel, regSetup, enabled, maxAttempts>>
transportVars == <<armedTimers, connStatus, connListeners, connCloseCalls,
                   chanStatus, chanConn, chanReg>>
callVars == <<slots, latePending, startsLeft, closePc, closeCur, wd, wdConn>>
obsVars == <<events, closeReturned, closeRequested, unregCalled, resurrected,
             recov, everCurrent, late, callerError>>
waitVars == <<callers>>

VARIABLES
  \* ---- RMQClient fields
  clientChannel,       \* this.channel (0: null)
  replyQueue,          \* this.replyQueue, named by the channel that declared it (0: null)
  isConnected,
  pendingRequests,     \* the keys of the Map
  responseListeners,   \* correlation ids the responseEmitter has a listener for
  timers,              \* per request: "none" | "armed" | "cleared" | "fired"
  \* ---- the client's channels and calls in flight
  clientChans,         \* per channel: "unused" | "open" | "closed"
  clientReg,           \* its RegisteredChannel: [registered, channel]
  clientLink,          \* the manager's connection: "none" | "up" | "lost"
  clientRecreate,      \* a recreateSingleChannel of its entry is pending
  clientPc,            \* shutdown(): "idle" | "closing" | "returned"
  clientClosing,       \* shutdown(): the channel whose close() is awaited
  \* ---- requests, as the broker and the caller see them
  requests,            \* per send(): "unused" | "refused" | "accepted" | "failed"
  replyTo,             \* the reply queue named in the published message
  repliesLeft,         \* replies the server may still send
  replyBox,            \* replies waiting in the reply queue
  settled,             \* the causes the promise was resolved or rejected with, in order
  clientPendingCount   \* pendingCount of the last shutdown() of the client (-1: none)

clientVars == <<clientChannel, replyQueue, isConnected, pendingRequests, responseListeners,
                timers, clientChans, clientReg, clientLink, clientRecreate, clientPc,
                clientClosing, requests, replyTo, repliesLeft, replyBox, settled,
                clientPendingCount>>

VARIABLES
  \* ---- RMQServer fields
  serverChannel,       \* this.channel (0: null)
  isListening,
  consumerTag,         \* this.consumerTag, named by the channel it consumes on (0: null)
  inFlightHandlers,    \* deliveries whose processMessage promise is pending
  defaultRetryOptions, \* [maxRetries, enabled]
  handlerOptions,      \* the options the handler was registered with
  \* ---- the server's channels and calls in flight
  serverChans,         \* per channel: "unused" | "open" | "closed"
  serverReg,           \* its RegisteredChannel: [registered, channel]
  serverLink,          \* the manager's connection: "none" | "up" | "lost"
  serverRecreate,      \* a recreateSingleChannel of its entry is pending
  serverPc,            \* shutdown(): "idle" | "cancel" | "wait" | "closing" | "returned"
  serverForce,         \* shutdown(): options.force
  serverClosing,       \* shutdown(): the channel whose cancel() or close() is awaited
  timedOut,            \* shutdown(): the wait for the handlers ran out of time
  serverTimeout,       \* shutdown(): options.timeout (0, or the default)
  pendingCount,        \* shutdown(): its local pendingCount (-1: not reached)
  serverConsuming,     \* setupChannel(): channels whose consume() is awaited
  serverCancelTag,     \* shutdown(): the consumer tag its pending channel.cancel() was given
  \* ---- the broker
  mainQueue,           \* messages ready in the main queue
  dlq,                 \* messages in the dead-letter queue
  consumers,           \* channels with a consumer on the main queue
  tagCount,            \* per channel: the last delivery tag used
  deliveries,          \* per delivery: [status, msg, chan, tag, acks, broker, raised]
  published,           \* messages published by clients so far
  publishLimit,        \* messages the model lets clients publish
  \* ---- observations
  handlerCalls,        \* per message: the retry counts the handler was invoked with
  retryPublished       \* per delivery: the retry messages published for it

serverVars == <<serverChannel, isListening, consumerTag, inFlightHandlers,
                defaultRetryOptions, handlerOptions, serverChans, serverReg, serverLink,
                serverRecreate, serverPc, serverForce, serverClosing, timedOut,
                serverTimeout, pendingCount, serverConsuming, serverCancelTag,
                mainQueue,
                dlq, consumers, tagCount, deliveries, published, publishLimit,
                handlerCalls, retryPublished>>

VARIABLES
  \* ---- one call of the function that MiddlewareManager.compose() returns
  chain,               \* [middlewares, handler, index, stack, signal, calls, result]
  \* ---- the static field of RMQConnectionManager and the calls of getInstance
  singleton,
  \* ---- one call of performGracefulShutdown
  gs,
  \* ---- the consumers that listen() and setupChannel() of one RMQServer start
  lsn                  \* [channel, isListening, consumerTag, link, entries, reg, open, ...]

utilVars == <<chain, singleton, gs, lsn>>

appVars == <<clientVars, serverVars, utilVars>>

NoOutcome == [r \in RegIds |-> "none"]
IdleSlot == [phase |-> "idle", kind |-> "none", cur |-> 0, step |-> "none", conn |-> 0,
             out |-> NoOutcome]

Ev(t, n, e) == [t |-> t, n |-> n, e |-> e]
MaxAttemptsError == "Max reconnection attempts"

InitCore ==
  /\ state = "disconnected"
  /\ connection = 0
  /\ reconnectAttempt = 0
  /\ reconnectTimer = "null"
  /\ isClosing = FALSE
  /\ registeredChannels = {}
  /\ regChannel = [r \in RegIds |-> 0]
  /\ regSetup = [r \in RegIds |-> FALSE]
  /\ armedTimers = 0
  /\ connStatus = [c \in ConnIds |-> "unused"]
  /\ connListeners = [c \in ConnIds |-> FALSE]
  /\ connCloseCalls = [c \in ConnIds |-> 0]
  /\ chanStatus = [c \in ChanIds |-> "unused"]
  /\ chanConn = [c \in ChanIds |-> 0]
  /\ chanReg = [c \in ChanIds |-> 0]
  /\ slots = [s \in SlotIds |-> IdleSlot]
  /\ latePending = 0
  /\ closePc = "idle"
  /\ closeCur = 0
  /\ wd = [r \in RegIds |-> "idle"]
  /\ wdConn = [r \in RegIds |-> 0]
  /\ events = <<>>
  /\ closeReturned = FALSE
  /\ closeRequested = FALSE
  /\ unregCalled = {}
  /\ resurrected = {}
  /\ recov = [r \in RegIds |-> "none"]
  /\ everCurrent = {}
  /\ late = {}
  /\ callerError = NoError


(***************************************************************************)
(* Helpers                                                                 *)
(***************************************************************************)
Min(S) == CHOOSE x \in S : \A y \in S : x <= y

\* A transport object not handed out yet (0: the bound is used up).
FreshConn == IF \E c \in ConnIds : connStatus[c] = "unused"
             THEN Min({c \in ConnIds : connStatus[c] = "unused"}) ELSE 0
FreshChan == IF \E c \in ChanIds : chanStatus[c] = "unused"
             THEN Min({c \in ChanIds : chanStatus[c] = "unused"}) ELSE 0
FreshReg == IF \E r \in RegIds : \A c \in ChanIds : chanReg[c] # r
            THEN Min({r \in RegIds : \A c \in ChanIds : chanReg[c] # r}) ELSE 0
FreeSlot == IF \E s \in SlotIds : slots[s].phase = "idle"
            THEN Min({s \in SlotIds : slots[s].phase = "idle"}) ELSE 0

\* Iteration of a JS Set: insertion order, entries deleted meanwhile are
\* skipped, entries added meanwhile are visited.  p is the entry visited last.
NextEntry(p, set) == IF \E r \in set : r > p THEN Min({r \in set : r > p}) ELSE 0

\* clearTimeout(this.reconnectTimer): the pending timers that remain.
ClearedTimers == IF reconnectTimer = "armed" THEN armedTimers - 1 ELSE armedTimers

\* The channels of a connection die with it.
ChannelsAfterConnClose(c) ==
  [ch \in ChanIds |-> IF chanStatus[ch] = "open" /\ chanConn[ch] = c
                      THEN "closed" ELSE chanStatus[ch]]


(***************************************************************************)
(* The promises of getConnection() and the listeners they hang on the bus  *)
(***************************************************************************)
CallerIds == 1..MaxCalls
NoCaller == [st |-> "unused", kind |-> "none", slot |-> 0, on |-> {}, conn |-> 0,
             err |-> "none", joined |-> {}]

\* The next call whose promise is followed (0: the call is not followed).
FreshCaller == IF \E k \in DOMAIN callers : callers[k].st = "unused"
               THEN Min({k \in DOMAIN callers : callers[k].st = "unused"}) ELSE 0

\* getConnection() line 107: the promise of connect(), awaiting the attempt in slot s
Starter(s) == [NoCaller EXCEPT !.st = "attempt", !.kind = "starter", !.slot = s]

\* getConnection() lines 90-104: once('connected'), once('reconnected'), once('error')
\* joined: the calls whose promise was pending when this call was made.
Waiter == [NoCaller EXCEPT !.st = "listening", !.kind = "waiter",
                           !.on = {"connected", "reconnected", "error"},
                           !.joined = {k \in DOMAIN callers :
                                         callers[k].st \in {"attempt", "listening"}}]

\* getConnection() lines 84-86
Served(c) == [NoCaller EXCEPT !.st = "resolved", !.kind = "served", !.conn = c]

\* A once-listener of caller c runs for event ev; conn is this.connection.
Heard(c, ev, conn) ==
  IF c.st = "listening" /\ ev.t \in c.on
  THEN IF ev.t = "error"
       THEN [c EXCEPT !.st = "rejected", !.on = {}, !.err = ev.e]
       ELSE [c EXCEPT !.st = "resolved", !.on = {}, !.conn = conn]
  ELSE c

\* emit() of each event of evs in turn
RECURSIVE Notified(_, _, _)
Notified(cs, evs, conn) ==
  IF evs = <<>> THEN cs
  ELSE Notified([k \in DOMAIN cs |-> Heard(cs[k], Head(evs), conn)], Tail(evs), conn)

\* The events a step emits.
Emitted == SubSeq(events', Len(events) + 1, Len(events'))

BusHeard == callers' = Notified(callers, Emitted, connection')

\* connect() lines 159: the attempt of slot s gave connection c
ConnectReturns(cs, s, c) ==
  [k \in DOMAIN cs |->
     IF cs[k].st = "attempt" /\ cs[k].slot = s
     THEN [cs[k] EXCEPT !.st = "resolved", !.slot = 0, !.conn = c]
     ELSE cs[k]]

\* connect() lines 160-178, after the events of the catch branch were emitted
ConnectThrows(cs, s, error) ==
  [k \in DOMAIN cs |->
     IF cs[k].st = "attempt" /\ cs[k].slot = s
     THEN IF isNonRecoverableError(error) \/ ~enabled
          THEN [cs[k] EXCEPT !.st = "rejected", !.slot = 0, !.err = error.msg]
          ELSE [cs[k] EXCEPT !.st = "listening", !.slot = 0,
                             !.on = {"reconnected", "error"}]
     ELSE cs[k]]

\* scheduleReconnect() emitting 'reconnecting' before it increments the counter.
ScheduleReconnectEmitFirst(st, ev) ==
  IF reconnectAttempt >= maxAttempts
  THEN /\ armedTimers' = ClearedTimers
       /\ reconnectTimer' = IF reconnectTimer = "null" THEN "null" ELSE "stale"
       /\ events' = Append(ev, Ev("error", 0, MaxAttemptsError))
       /\ state' = st
       /\ reconnectAttempt' = reconnectAttempt
  ELSE /\ reconnectAttempt' = reconnectAttempt + 1
       /\ state' = "reconnecting"
       /\ events' = Append(ev, Ev("reconnecting", reconnectAttempt, ""))
       /\ reconnectTimer' = "armed"
       /\ armedTimers' = ClearedTimers + 1

\* scheduleReconnect() giving up only when the counter exceeds maxAttempts.
ScheduleReconnectOneMore(st, ev) ==
  IF reconnectAttempt > maxAttempts
  THEN /\ armedTimers' = ClearedTimers
       /\ reconnectTimer' = IF reconnectTimer = "null" THEN "null" ELSE "stale"
       /\ events' = Append(ev, Ev("error", 0, MaxAttemptsError))
       /\ state' = st
       /\ reconnectAttempt' = reconnectAttempt
  ELSE /\ reconnectAttempt' = reconnectAttempt + 1
       /\ state' = "reconnecting"
       /\ events' = Append(ev, Ev("reconnecting", reconnectAttempt + 1, ""))
       /\ reconnectTimer' = "armed"
       /\ armedTimers' = ClearedTimers + 1

\* scheduleReconnect() without its clearTimeout(this.reconnectTimer).
ScheduleReconnectKeepsTimer(st, ev) ==
  IF reconnectAttempt >= maxAttempts
  THEN /\ armedTimers' = armedTimers
       /\ reconnectTimer' = reconnectTimer
       /\ events' = Append(ev, Ev("error", 0, MaxAttemptsError))
       /\ state' = st
       /\ reconnectAttempt' = reconnectAttempt
  ELSE /\ reconnectAttempt' = reconnectAttempt + 1
       /\ state' = "reconnecting"
       /\ events' = Append(ev, Ev("reconnecting", reconnectAttempt + 1, ""))
       /\ reconnectTimer' = "armed"
       /\ armedTimers' = armedTimers + 1

(***************************************************************************)
(* scheduleReconnect(), called with this.state = st and the event log ev   *)
(***************************************************************************)
ScheduleReconnect(st, ev) ==
  IF reconnectAttempt >= maxAttempts
  THEN /\ armedTimers' = ClearedTimers
       /\ reconnectTimer' = IF reconnectTimer = "null" THEN "null" ELSE "stale"
       /\ events' = Append(ev, Ev("error", 0, MaxAttemptsError))
       /\ state' = st
       /\ reconnectAttempt' = reconnectAttempt
  ELSE /\ reconnectAttempt' = reconnectAttempt + 1
       /\ state' = "reconnecting"
       /\ events' = Append(ev, Ev("reconnecting", reconnectAttempt + 1, ""))
       /\ reconnectTimer' = "armed"
       /\ armedTimers' = ClearedTimers + 1

\* getConnection() calling connect() although a connection is being established.
GetConnectionAlwaysConnects ==
  /\ ~(connection # 0 /\ state = "connected")
  /\ startsLeft > 0
  /\ FreeSlot # 0
  /\ state' = "connecting"
  /\ slots' = [slots EXCEPT ![FreeSlot] = [IdleSlot EXCEPT !.phase = "pending", !.kind = "connect"]]
  /\ startsLeft' = startsLeft - 1
  /\ closeReturned' = FALSE
  /\ UNCHANGED <<connection, reconnectAttempt, reconnectTimer, isClosing,
                 registeredChannels, regChannel, regSetup, enabled, maxAttempts>>
  /\ UNCHANGED transportVars
  /\ UNCHANGED <<latePending, closePc, closeCur, wd, wdConn>>
  /\ UNCHANGED <<events, closeRequested, unregCalled, resurrected, recov, everCurrent, late, callerError>>
  /\ callers' = IF FreshCaller # 0
                THEN [callers EXCEPT ![FreshCaller] = Starter(FreeSlot)]
                ELSE callers
  /\ UNCHANGED appVars

(***************************************************************************)
(* getConnection() -> connect(): the synchronous start                     *)
(***************************************************************************)
GetConnection ==
  /\ ~(connection # 0 /\ state = "connected")
  /\ state \notin {"connecting", "reconnecting"}
  /\ startsLeft > 0
  /\ FreeSlot # 0
  /\ state' = "connecting"
  /\ slots' = [slots EXCEPT ![FreeSlot] = [IdleSlot EXCEPT !.phase = "pending", !.kind = "connect"]]
  /\ startsLeft' = startsLeft - 1
  /\ closeReturned' = FALSE
  /\ UNCHANGED <<connection, reconnectAttempt, reconnectTimer, isClosing,
                 registeredChannels, regChannel, regSetup, enabled, maxAttempts>>
  /\ UNCHANGED transportVars
  /\ UNCHANGED <<latePending, closePc, closeCur, wd, wdConn>>
  /\ UNCHANGED <<events, closeRequested, unregCalled, resurrected, recov, everCurrent, late, callerError>>
  /\ callers' = IF FreshCaller # 0
                THEN [callers EXCEPT ![FreshCaller] = Starter(FreeSlot)]
                ELSE callers
  /\ UNCHANGED appVars

(***************************************************************************)
(* getConnection() while a connection is being established: the caller     *)
(* waits on the bus (lines 88-105)                                         *)
(***************************************************************************)
GetConnectionWaits ==
  /\ ~(connection # 0 /\ state = "connected")
  /\ state \in {"connecting", "reconnecting"}
  /\ FreshCaller # 0
  /\ callers' = [callers EXCEPT ![FreshCaller] = Waiter]
  /\ UNCHANGED <<coreVars, transportVars, callVars, obsVars, clientVars, serverVars, utilVars>>

(***************************************************************************)
(* getConnection() while connected: the connection is returned (84-86)     *)
(***************************************************************************)
GetConnectionServed ==
  /\ connection # 0 /\ state = "connected"
  /\ FreshCaller # 0
  /\ callers' = [callers EXCEPT ![FreshCaller] = Served(connection)]
  /\ UNCHANGED <<coreVars, transportVars, callVars, obsVars, clientVars, serverVars, utilVars>>


(***************************************************************************)
(* The reconnect timer fires: reconnect() begins its connectWithTimeout    *)
(***************************************************************************)
TimerFire ==
  /\ armedTimers > 0
  /\ startsLeft > 0
  /\ FreeSlot # 0
  /\ armedTimers' = armedTimers - 1
  /\ reconnectTimer' = IF reconnectTimer = "armed" THEN "stale" ELSE reconnectTimer
  /\ slots' = [slots EXCEPT ![FreeSlot] = [IdleSlot EXCEPT !.phase = "pending", !.kind = "reconnect"]]
  /\ startsLeft' = startsLeft - 1
  /\ UNCHANGED <<state, connection, reconnectAttempt, isClosing,
                 registeredChannels, regChannel, regSetup, enabled, maxAttempts>>
  /\ UNCHANGED <<connStatus, connListeners, connCloseCalls, chanStatus, chanConn, chanReg>>
  /\ UNCHANGED <<latePending, closePc, closeCur, wd, wdConn>>
  /\ UNCHANGED obsVars
  /\ BusHeard
  /\ UNCHANGED appVars

\* connect()'s catch branch handing a terminal error to scheduleReconnect().
ConnectFailedRetriesTerminal(error) ==
  IF enabled
  THEN ScheduleReconnect("disconnected", events)
  ELSE /\ state' = "disconnected"
       /\ UNCHANGED <<events, reconnectAttempt, reconnectTimer, armedTimers>>

\* connect()'s catch branch scheduling a reconnect whatever the options say.
ConnectFailedIgnoresEnabled(error) ==
  IF isNonRecoverableError(error)
  THEN /\ state' = "disconnected"
       /\ events' = Append(events, Ev("error", 0, error.msg))
       /\ UNCHANGED <<reconnectAttempt, reconnectTimer, armedTimers>>
  ELSE ScheduleReconnect("disconnected", events)

(***************************************************************************)
(* connect(): catch branch, and reconnect(): catch branch                  *)
(***************************************************************************)
ConnectFailed(error) ==
  IF isNonRecoverableError(error)
  THEN /\ state' = "disconnected"
       /\ events' = Append(events, Ev("error", 0, error.msg))
       /\ UNCHANGED <<reconnectAttempt, reconnectTimer, armedTimers>>
  ELSE IF enabled
  THEN ScheduleReconnect("disconnected", events)
  ELSE /\ state' = "disconnected"
       /\ UNCHANGED <<events, reconnectAttempt, reconnectTimer, armedTimers>>

ReconnectFailed(error) ==
  IF isNonRecoverableError(error)
  THEN /\ state' = "disconnected"
       /\ events' = Append(events, Ev("error", 0, error.msg))
       /\ UNCHANGED <<reconnectAttempt, reconnectTimer, armedTimers>>
  ELSE ScheduleReconnect(state, events)

\* The caller of connectWithTimeout is failed with error.
AttemptFailed(s, error) ==
  /\ slots' = [slots EXCEPT ![s] = IdleSlot]
  /\ callerError' = error
  /\ IF slots[s].kind = "connect" THEN ConnectFailed(error) ELSE ReconnectFailed(error)
  /\ callers' = IF slots[s].kind = "connect"
                THEN ConnectThrows(Notified(callers, Emitted, connection'), s, error)
                ELSE Notified(callers, Emitted, connection')
  /\ UNCHANGED <<connection, isClosing, registeredChannels, regChannel, regSetup,
                 enabled, maxAttempts>>
  /\ UNCHANGED <<connStatus, connListeners, connCloseCalls, chanStatus, chanConn, chanReg>>
  /\ UNCHANGED <<startsLeft, closePc, closeCur, wd, wdConn>>
  /\ UNCHANGED <<closeReturned, closeRequested, unregCalled, resurrected, recov, everCurrent, late>>

(***************************************************************************)
(* connectWithTimeout(): the timer fires before amqp.connect settles       *)
(***************************************************************************)
AttemptTimeout(s) ==
  /\ slots[s].phase = "pending"
  /\ latePending' = latePending + 1
  /\ AttemptFailed(s, TimeoutError)
  /\ UNCHANGED appVars

(***************************************************************************)
(* connectWithTimeout(): amqp.connect rejects before the timer fires       *)
(***************************************************************************)
AttemptReject(s, error) ==
  /\ slots[s].phase = "pending"
  /\ UNCHANGED latePending
  /\ AttemptFailed(s, error)
  /\ UNCHANGED appVars

(***************************************************************************)
(* connectWithTimeout(): amqp.connect settles after the timer fired        *)
(***************************************************************************)
\* .catch: the error is ignored, the caller was rejected already
LateReject ==
  /\ latePending > 0
  /\ latePending' = latePending - 1
  /\ UNCHANGED coreVars
  /\ UNCHANGED transportVars
  /\ UNCHANGED <<slots, startsLeft, closePc, closeCur, wd, wdConn>>
  /\ UNCHANGED obsVars
  /\ BusHeard
  /\ UNCHANGED appVars

\* .then forgetting to close the connection that came too late.
LateConnectionLeaked(c) ==
  /\ connStatus' = [connStatus EXCEPT ![c] = "open"]
  /\ late' = late \cup {c}
  /\ UNCHANGED <<connListeners, everCurrent, connCloseCalls>>

\* .then: the connection is closed, never used
LateConnection(c) ==
  /\ connStatus' = [connStatus EXCEPT ![c] = "closed"]
  /\ connCloseCalls' = [connCloseCalls EXCEPT ![c] = @ + 1]
  /\ late' = late \cup {c}
  /\ UNCHANGED <<connListeners, everCurrent>>

LateResolve ==
  /\ latePending > 0
  /\ FreshConn # 0
  /\ latePending' = latePending - 1
  /\ LateConnection(FreshConn)
  /\ UNCHANGED coreVars
  /\ UNCHANGED <<armedTimers, chanStatus, chanConn, chanReg>>
  /\ UNCHANGED <<slots, startsLeft, closePc, closeCur, wd, wdConn>>
  /\ UNCHANGED <<events, closeReturned, closeRequested, unregCalled, resurrected, recov,
                 callerError>>
  /\ BusHeard
  /\ UNCHANGED appVars

(***************************************************************************)
(* recreateChannels(): the loop moves on after entry p.  conn is           *)
(* this.connection, rc the outcomes of this recovery and ev the events so  *)
(* far.                                                                    *)
(* With this.connection null every createChannel call that is left throws  *)
(* at once and is caught; after the last entry reconnect() emits           *)
(* 'reconnected'.                                                          *)
(***************************************************************************)
RecreateAdvance(s, p, conn, rc, ev) ==
  LET n == NextEntry(p, registeredChannels) IN
  IF n = 0
  THEN /\ slots' = [slots EXCEPT ![s] = IdleSlot]
       /\ recov' = rc
       /\ events' = Append(ev, Ev("reconnected", 0, ""))
  ELSE IF conn = 0
  THEN /\ slots' = [slots EXCEPT ![s] = IdleSlot]
       /\ recov' = [r \in RegIds |->
                      IF r \in registeredChannels /\ r > p THEN "openFailed" ELSE rc[r]]
       /\ events' = Append(ev, Ev("reconnected", 0, ""))
  ELSE /\ slots' = [slots EXCEPT ![s] = [phase |-> "recreating", kind |-> "reconnect",
                                         cur |-> n, step |-> "open", conn |-> conn,
                                         out |-> rc]]
       /\ recov' = recov
       /\ events' = ev

(***************************************************************************)
(* connectWithTimeout(): amqp.connect resolves with a connection           *)
(***************************************************************************)
\* connect(): lines 152-159
ConnectSucceeded(s, c) ==
  /\ connection' = c
  /\ connListeners' = [connListeners EXCEPT ![c] = TRUE]
  /\ state' = "connected"
  /\ reconnectAttempt' = 0
  /\ events' = Append(events, Ev("connected", 0, ""))
  /\ slots' = [slots EXCEPT ![s] = IdleSlot]
  /\ UNCHANGED recov

\* reconnect() emitting 'reconnected' before its await of recreateChannels().
ReconnectSucceededEmitsFirst(s, c) ==
  /\ connection' = c
  /\ connListeners' = [connListeners EXCEPT ![c] = TRUE]
  /\ state' = "connected"
  /\ reconnectAttempt' = 0
  /\ IF NextEntry(0, registeredChannels) = 0
     THEN RecreateAdvance(s, 0, c, NoOutcome, events)
     ELSE RecreateAdvance(s, 0, c, NoOutcome, Append(events, Ev("reconnected", 0, "")))

\* reconnect() if it left the attempt counter as it is.
ReconnectSucceededKeepsCounter(s, c) ==
  /\ connection' = c
  /\ connListeners' = [connListeners EXCEPT ![c] = TRUE]
  /\ state' = "connected"
  /\ reconnectAttempt' = reconnectAttempt
  /\ RecreateAdvance(s, 0, c, NoOutcome, events)

\* reconnect(): lines 271-278, up to the first await of recreateChannels()
ReconnectSucceeded(s, c) ==
  /\ connection' = c
  /\ connListeners' = [connListeners EXCEPT ![c] = TRUE]
  /\ state' = "connected"
  /\ reconnectAttempt' = 0
  /\ RecreateAdvance(s, 0, c, NoOutcome, events)

\* amqp.connect resolves before the timer fires
AttemptResolve(s) ==
  /\ slots[s].phase = "pending"
  /\ FreshConn # 0
  /\ connStatus' = [connStatus EXCEPT ![FreshConn] = "open"]
  /\ everCurrent' = everCurrent \cup {FreshConn}
  /\ IF slots[s].kind = "connect"
     THEN ConnectSucceeded(s, FreshConn)
     ELSE ReconnectSucceeded(s, FreshConn)
  /\ UNCHANGED <<reconnectTimer, isClosing, registeredChannels, regChannel, regSetup,
                 enabled, maxAttempts>>
  /\ UNCHANGED <<armedTimers, connCloseCalls, chanStatus, chanConn, chanReg>>
  /\ UNCHANGED <<latePending, startsLeft, closePc, closeCur, wd, wdConn>>
  /\ UNCHANGED <<closeReturned, closeRequested, unregCalled, resurrected, late,
                 callerError>>
  /\ callers' = IF slots[s].kind = "connect"
                THEN ConnectReturns(Notified(callers, Emitted, connection'), s, FreshConn)
                ELSE Notified(callers, Emitted, connection')
  /\ UNCHANGED appVars

(***************************************************************************)
(* recreateChannels(): one entry                                           *)
(***************************************************************************)
\* createChannel resolved: lines 303-311
RecreateOpenOk(s) ==
  LET r == slots[s].cur
      ch == FreshChan IN
  /\ slots[s].phase = "recreating" /\ slots[s].step = "open"
  /\ connStatus[slots[s].conn] = "open"
  /\ ch # 0
  /\ chanStatus' = [chanStatus EXCEPT ![ch] = "open"]
  /\ chanConn' = [chanConn EXCEPT ![ch] = slots[s].conn]
  /\ chanReg' = [chanReg EXCEPT ![ch] = r]
  /\ regChannel' = [regChannel EXCEPT ![r] = ch]
  /\ resurrected' = IF r \in unregCalled THEN resurrected \cup {r} ELSE resurrected
  /\ IF regSetup[r]
     THEN /\ slots' = [slots EXCEPT ![s].step = "setup"]
          /\ UNCHANGED <<recov, events>>
     ELSE RecreateAdvance(s, r, connection, [slots[s].out EXCEPT ![r] = "done"], events)
  /\ UNCHANGED <<state, connection, reconnectAttempt, reconnectTimer, isClosing,
                 registeredChannels, regSetup, enabled, maxAttempts>>
  /\ UNCHANGED <<armedTimers, connStatus, connListeners, connCloseCalls>>
  /\ UNCHANGED <<latePending, startsLeft, closePc, closeCur, wd, wdConn>>
  /\ UNCHANGED <<closeReturned, closeRequested, unregCalled, everCurrent, late, callerError>>
  /\ BusHeard
  /\ UNCHANGED appVars

\* recreateChannels() without its try/catch: a failure ends the loop.
RecreateSettleAbort(s, outcome) ==
  /\ IF outcome = "done"
     THEN RecreateAdvance(s, slots[s].cur, connection,
                          [slots[s].out EXCEPT ![slots[s].cur] = outcome], events)
     ELSE /\ slots' = [slots EXCEPT ![s] = IdleSlot]
          /\ recov' = [slots[s].out EXCEPT ![slots[s].cur] = outcome]
          /\ events' = Append(events, Ev("reconnected", 0, ""))
  /\ UNCHANGED coreVars
  /\ UNCHANGED transportVars
  /\ UNCHANGED <<latePending, startsLeft, closePc, closeCur, wd, wdConn>>
  /\ UNCHANGED <<closeReturned, closeRequested, unregCalled, resurrected, everCurrent, late,
                 callerError>>

\* createChannel rejected, or registered.setup(channel) settled: lines 310-314
RecreateSettle(s, outcome) ==
  /\ RecreateAdvance(s, slots[s].cur, connection,
                     [slots[s].out EXCEPT ![slots[s].cur] = outcome], events)
  /\ UNCHANGED coreVars
  /\ UNCHANGED transportVars
  /\ UNCHANGED <<latePending, startsLeft, closePc, closeCur, wd, wdConn>>
  /\ UNCHANGED <<closeReturned, closeRequested, unregCalled, resurrected, everCurrent, late, callerError>>

RecreateOpenFail(s) ==
  /\ slots[s].phase = "recreating" /\ slots[s].step = "open"
  /\ RecreateSettle(s, "openFailed")
  /\ BusHeard
  /\ UNCHANGED appVars

RecreateSetupOk(s) ==
  /\ slots[s].phase = "recreating" /\ slots[s].step = "setup"
  /\ RecreateSettle(s, "done")
  /\ BusHeard
  /\ UNCHANGED appVars

RecreateSetupFail(s) ==
  /\ slots[s].phase = "recreating" /\ slots[s].step = "setup"
  /\ RecreateSettle(s, "setupFailed")
  /\ BusHeard
  /\ UNCHANGED appVars

(***************************************************************************)
(* connection.on('close'): the broker or the network closes connection c   *)
(***************************************************************************)
ConnectionClosed(c, error) ==
  /\ connStatus[c] = "open"
  /\ connListeners[c]
  /\ connStatus' = [connStatus EXCEPT ![c] = "closed"]
  /\ chanStatus' = ChannelsAfterConnClose(c)
  /\ IF isClosing
     THEN /\ state' = "disconnected"
          /\ UNCHANGED <<connection, regChannel, events, reconnectAttempt,
                         reconnectTimer, armedTimers>>
     ELSE /\ connection' = 0
          /\ regChannel' = [r \in RegIds |-> IF r \in registeredChannels THEN 0
                                             ELSE regChannel[r]]
          /\ IF enabled /\ ~isNonRecoverableError(error)
             THEN ScheduleReconnect("disconnected",
                                    Append(events, Ev("disconnected", 0, error.msg)))
             ELSE /\ state' = "disconnected"
                  /\ events' = IF error # NoError
                               THEN Append(Append(events, Ev("disconnected", 0, error.msg)),
                                           Ev("error", 0, error.msg))
                               ELSE Append(events, Ev("disconnected", 0, error.msg))
                  /\ UNCHANGED <<reconnectAttempt, reconnectTimer, armedTimers>>
  /\ UNCHANGED <<isClosing, registeredChannels, regSetup, enabled, maxAttempts>>
  /\ UNCHANGED <<connListeners, connCloseCalls, chanConn, chanReg>>
  /\ UNCHANGED callVars
  /\ UNCHANGED <<closeReturned, closeRequested, unregCalled, resurrected, recov,
                 everCurrent, late, callerError>>
  /\ BusHeard
  /\ UNCHANGED appVars


(***************************************************************************)
(* channel.on('close'): channel ch closes while its connection lives (a    *)
(* channel-level fault, or somebody's channel.close() completing).  The    *)
(* listener runs recreateSingleChannel(registered) up to its first await.   *)
(* (Channels that die with their connection have their createChannel fail  *)
(* on that dying connection: no effect, see ConnectionClosed.)             *)
(***************************************************************************)
WatchdogStarts == state = "connected" /\ ~isClosing /\ connection # 0

\* The 'close' listener of a channel if it re-created the channel of every
\* registered entry instead of its own.
ChannelClosedRecreatesAll(ch) ==
  /\ chanStatus[ch] = "open"
  /\ closePc # "chans" \/ closeCur # ch
  /\ chanStatus' = [chanStatus EXCEPT ![ch] = "closed"]
  /\ IF WatchdogStarts
     THEN /\ wd[chanReg[ch]] = "idle"
          /\ wd' = [x \in RegIds |-> IF x \in registeredChannels THEN "open" ELSE wd[x]]
          /\ wdConn' = [x \in RegIds |-> IF x \in registeredChannels THEN connection
                                         ELSE wdConn[x]]
     ELSE UNCHANGED <<wd, wdConn>>
  /\ UNCHANGED coreVars
  /\ UNCHANGED <<armedTimers, connStatus, connListeners, connCloseCalls, chanConn, chanReg>>
  /\ UNCHANGED <<slots, latePending, startsLeft, closePc, closeCur>>
  /\ UNCHANGED obsVars
  /\ BusHeard
  /\ UNCHANGED appVars

ChannelClosed(ch) ==
  LET r == chanReg[ch] IN
  /\ chanStatus[ch] = "open"
  /\ closePc # "chans" \/ closeCur # ch
  /\ chanStatus' = [chanStatus EXCEPT ![ch] = "closed"]
  /\ IF WatchdogStarts
     THEN /\ wd[r] = "idle"
          /\ wd' = [wd EXCEPT ![r] = "open"]
          /\ wdConn' = [wdConn EXCEPT ![r] = connection]
     ELSE UNCHANGED <<wd, wdConn>>
  /\ UNCHANGED coreVars
  /\ UNCHANGED <<armedTimers, connStatus, connListeners, connCloseCalls, chanConn, chanReg>>
  /\ UNCHANGED <<slots, latePending, startsLeft, closePc, closeCur>>
  /\ UNCHANGED obsVars
  /\ BusHeard
  /\ UNCHANGED appVars

\* recreateSingleChannel(): createChannel resolved, lines 370-376
WdOpenOk(r) ==
  LET ch == FreshChan IN
  /\ wd[r] = "open"
  /\ connStatus[wdConn[r]] = "open"
  /\ ch # 0
  /\ chanStatus' = [chanStatus EXCEPT ![ch] = "open"]
  /\ chanConn' = [chanConn EXCEPT ![ch] = wdConn[r]]
  /\ chanReg' = [chanReg EXCEPT ![ch] = r]
  /\ regChannel' = [regChannel EXCEPT ![r] = ch]
  /\ resurrected' = IF r \in unregCalled THEN resurrected \cup {r} ELSE resurrected
  /\ wd' = [wd EXCEPT ![r] = IF regSetup[r] THEN "setup" ELSE "idle"]
  /\ UNCHANGED <<state, connection, reconnectAttempt, reconnectTimer, isClosing,
                 registeredChannels, regSetup, enabled, maxAttempts>>
  /\ UNCHANGED <<armedTimers, connStatus, connListeners, connCloseCalls>>
  /\ UNCHANGED <<slots, latePending, startsLeft, closePc, closeCur, wdConn>>
  /\ UNCHANGED <<events, closeReturned, closeRequested, unregCalled, recov, everCurrent, late, callerError>>
  /\ BusHeard
  /\ UNCHANGED appVars

\* recreateSingleChannel(): createChannel rejected, or the setup settled
WdSettle(r) ==
  /\ wd[r] \in {"open", "setup"}
  /\ wd' = [wd EXCEPT ![r] = "idle"]
  /\ UNCHANGED coreVars
  /\ UNCHANGED transportVars
  /\ UNCHANGED <<slots, latePending, startsLeft, closePc, closeCur, wdConn>>
  /\ UNCHANGED obsVars
  /\ BusHeard
  /\ UNCHANGED appVars

(***************************************************************************)
(* createChannel(setup): on a live connection                              *)
(***************************************************************************)
CreateChannel(setup) ==
  LET r == FreshReg
      ch == FreshChan IN
  /\ state = "connected" /\ connection # 0
  /\ connStatus[connection] = "open"
  /\ r # 0 /\ ch # 0
  /\ chanStatus' = [chanStatus EXCEPT ![ch] = "open"]
  /\ chanConn' = [chanConn EXCEPT ![ch] = connection]
  /\ chanReg' = [chanReg EXCEPT ![ch] = r]
  /\ registeredChannels' = registeredChannels \cup {r}
  /\ regChannel' = [regChannel EXCEPT ![r] = ch]
  /\ regSetup' = [regSetup EXCEPT ![r] = setup]
  /\ closeReturned' = FALSE
  /\ UNCHANGED <<state, connection, reconnectAttempt, reconnectTimer, isClosing,
                 enabled, maxAttempts>>
  /\ UNCHANGED <<armedTimers, connStatus, connListeners, connCloseCalls>>
  /\ UNCHANGED callVars
  /\ UNCHANGED <<events, closeRequested, unregCalled, resurrected, recov, everCurrent, late, callerError>>
  /\ BusHeard
  /\ UNCHANGED appVars

(***************************************************************************)
(* unregisterChannel(channel)                                              *)
(***************************************************************************)
UnregisterChannel(ch) ==
  /\ chanStatus[ch] # "unused"
  /\ registeredChannels' =
       IF \E r \in registeredChannels : regChannel[r] = ch
       THEN registeredChannels \ {Min({r \in registeredChannels : regChannel[r] = ch})}
       ELSE registeredChannels
  /\ unregCalled' = unregCalled \cup {chanReg[ch]}
  /\ UNCHANGED <<state, connection, reconnectAttempt, reconnectTimer, isClosing,
                 regChannel, regSetup, enabled, maxAttempts>>
  /\ UNCHANGED transportVars
  /\ UNCHANGED callVars
  /\ UNCHANGED <<events, closeReturned, closeRequested, resurrected, recov, everCurrent, late, callerError>>
  /\ BusHeard
  /\ UNCHANGED appVars

(***************************************************************************)
(* close()                                                                 *)
(***************************************************************************)
\* The next entry after p whose channel.close() is awaited: closing a null
\* or an already closed channel does not suspend (skipped, or caught).
NextToClose(p) ==
  LET S == {r \in registeredChannels :
              r > p /\ regChannel[r] # 0 /\ chanStatus[regChannel[r]] = "open"} IN
  IF S = {} THEN 0 ELSE Min(S)

\* The loop over the entries after p (lines 427-435) and, when it ends,
\* lines 436-449.  cs is the channel table at this point.
CloseContinue(p, cs) ==
  IF NextToClose(p) # 0
  THEN /\ closePc' = "chans"
       /\ closeCur' = regChannel[NextToClose(p)]
       /\ chanStatus' = cs
       /\ isClosing' = TRUE
       /\ closeReturned' = FALSE
       /\ UNCHANGED <<registeredChannels, connection, state, connCloseCalls>>
  ELSE IF connection # 0 /\ connStatus[connection] = "open"
  THEN /\ registeredChannels' = {}
       /\ closePc' = "conn"
       /\ closeCur' = connection
       /\ connCloseCalls' = [connCloseCalls EXCEPT ![connection] = @ + 1]
       /\ chanStatus' = cs
       /\ isClosing' = TRUE
       /\ closeReturned' = FALSE
       /\ UNCHANGED <<connection, state>>
  ELSE \* nothing left to await: lines 445-449
       /\ registeredChannels' = {}
       /\ connCloseCalls' = IF connection # 0
                            THEN [connCloseCalls EXCEPT ![connection] = @ + 1]
                            ELSE connCloseCalls
       /\ connection' = 0
       /\ state' = "disconnected"
       /\ isClosing' = FALSE
       /\ closePc' = "idle"
       /\ closeCur' = 0
       /\ closeReturned' = TRUE
       /\ chanStatus' = cs

\* close() up to its first await: lines 419-424, then the loop
CloseStart ==
  /\ closePc = "idle"
  /\ armedTimers' = ClearedTimers
  /\ reconnectTimer' = "null"
  /\ closeRequested' = TRUE
  /\ CloseContinue(0, chanStatus)
  /\ UNCHANGED <<reconnectAttempt, regChannel, regSetup, enabled, maxAttempts>>
  /\ UNCHANGED <<connStatus, connListeners, chanConn, chanReg>>
  /\ UNCHANGED <<slots, latePending, startsLeft, wd, wdConn>>
  /\ UNCHANGED <<events, unregCalled, resurrected, recov, everCurrent, late, callerError>>
  /\ BusHeard
  /\ UNCHANGED appVars

\* await registered.channel.close() settled (resolved, or rejected and caught).
\* The channel's 'close' listener sees isClosing and does nothing.
CloseChannelDone ==
  /\ closePc = "chans"
  /\ CloseContinue(chanReg[closeCur], [chanStatus EXCEPT ![closeCur] = "closed"])
  /\ UNCHANGED <<reconnectAttempt, reconnectTimer, regChannel, regSetup, enabled,
                 maxAttempts>>
  /\ UNCHANGED <<armedTimers, connStatus, connListeners, chanConn, chanReg>>
  /\ UNCHANGED <<slots, latePending, startsLeft, wd, wdConn>>
  /\ UNCHANGED <<events, closeRequested, unregCalled, resurrected, recov, everCurrent, late, callerError>>
  /\ BusHeard
  /\ UNCHANGED appVars

\* await this.connection.close() settled: the connection's 'close' listener
\* ran with isClosing set (line 195), then lines 445-449.
CloseConnDone ==
  /\ closePc = "conn"
  /\ connStatus' = [connStatus EXCEPT ![closeCur] = "closed"]
  /\ chanStatus' = ChannelsAfterConnClose(closeCur)
  /\ connection' = 0
  /\ state' = "disconnected"
  /\ isClosing' = FALSE
  /\ closePc' = "idle"
  /\ closeCur' = 0
  /\ closeReturned' = TRUE
  /\ UNCHANGED <<reconnectAttempt, reconnectTimer, registeredChannels, regChannel,
                 regSetup, enabled, maxAttempts>>
  /\ UNCHANGED <<armedTimers, connListeners, connCloseCalls, chanConn, chanReg>>
  /\ UNCHANGED <<slots, latePending, startsLeft, wd, wdConn>>
  /\ UNCHANGED <<events, closeRequested, unregCalled, resurrected, recov, everCurrent, late, callerError>>
  /\ BusHeard
  /\ UNCHANGED appVars

(***************************************************************************)
(* RMQClient                                                               *)
(***************************************************************************)
ReqIds == 1..MaxReq
ClientChanIds == 1..MaxClientChan

InitClient ==
  /\ clientChannel = 0
  /\ replyQueue = 0
  /\ isConnected = FALSE
  /\ pendingRequests = {}
  /\ responseListeners = {}
  /\ timers = [r \in ReqIds |-> "none"]
  /\ clientChans = [c \in ClientChanIds |-> "unused"]
  /\ clientReg = [registered |-> FALSE, channel |-> 0]
  /\ clientLink = "none"
  /\ clientRecreate = FALSE
  /\ clientPc = "idle"
  /\ clientClosing = 0
  /\ requests = [r \in ReqIds |-> "unused"]
  /\ replyTo = [r \in ReqIds |-> 0]
  /\ repliesLeft = [r \in ReqIds |-> 0]
  /\ replyBox = [r \in ReqIds |-> 0]
  /\ settled = [r \in ReqIds |-> <<>>]
  /\ clientPendingCount = -1

FreshClientChan ==
  IF \E c \in ClientChanIds : clientChans[c] = "unused"
  THEN CHOOSE c \in ClientChanIds :
         clientChans[c] = "unused" /\ \A d \in ClientChanIds : d < c => clientChans[d] # "unused"
  ELSE 0

\* An exclusive reply queue goes with its channel: the replies in it are lost.
RepliesAfterClose(closed) ==
  [r \in ReqIds |-> IF replyTo[r] \in closed THEN 0 ELSE replyBox[r]]

\* cleanup() of send(): lines 319-323
cleanup(r) ==
  /\ timers' = [timers EXCEPT ![r] = IF @ = "armed" THEN "cleared" ELSE @]
  /\ responseListeners' = responseListeners \ {r}
  /\ pendingRequests' = pendingRequests \ {r}

\* connect(): createChannel(setupChannel), then isConnected = true
ClientConnect ==
  LET ch == FreshClientChan IN
  /\ clientLink = "none" /\ clientPc = "idle"
  /\ ch # 0
  /\ clientChans' = [clientChans EXCEPT ![ch] = "open"]
  /\ clientReg' = [registered |-> TRUE, channel |-> ch]
  /\ clientChannel' = ch
  /\ replyQueue' = ch
  /\ isConnected' = TRUE
  /\ clientLink' = "up"
  /\ UNCHANGED <<pendingRequests, responseListeners, timers, clientRecreate, clientPc,
                 clientClosing, requests, replyTo, repliesLeft, replyBox, settled>>
  /\ UNCHANGED clientPendingCount
  /\ UNCHANGED <<coreVars, transportVars, callVars, obsVars, waitVars, serverVars, utilVars>>

\* send(): the executor of the promise runs to its end at once.  timeout:
\* options.timeout is given; full: channel.publish returns false.
ClientSend(r, timeout, full) ==
  /\ requests[r] = "unused"
  /\ \A q \in ReqIds : q < r => requests[q] # "unused"
  /\ IF clientChannel = 0 \/ ~isConnected \/ replyQueue = 0
     THEN \* lines 300-306: throws before a PendingRequest exists
          /\ requests' = [requests EXCEPT ![r] = "refused"]
          /\ UNCHANGED <<pendingRequests, responseListeners, timers, replyTo, repliesLeft,
                         settled>>
     ELSE IF clientChans[clientChannel] # "open"
     THEN \* publish throws on a closed channel: lines 363-366
          /\ requests' = [requests EXCEPT ![r] = "failed"]
          /\ settled' = [settled EXCEPT ![r] = Append(@, "publish")]
          /\ timers' = [timers EXCEPT ![r] = IF timeout THEN "cleared" ELSE "none"]
          /\ UNCHANGED <<pendingRequests, responseListeners, replyTo, repliesLeft>>
     ELSE IF full
     THEN \* lines 359-362; the message is buffered and goes out all the same
          /\ requests' = [requests EXCEPT ![r] = "failed"]
          /\ settled' = [settled EXCEPT ![r] = Append(@, "publish")]
          /\ timers' = [timers EXCEPT ![r] = IF timeout THEN "cleared" ELSE "none"]
          /\ replyTo' = [replyTo EXCEPT ![r] = replyQueue]
          /\ repliesLeft' = [repliesLeft EXCEPT ![r] = MaxReplies]
          /\ UNCHANGED <<pendingRequests, responseListeners>>
     ELSE /\ requests' = [requests EXCEPT ![r] = "accepted"]
          /\ pendingRequests' = pendingRequests \cup {r}
          /\ timers' = [timers EXCEPT ![r] = IF timeout THEN "armed" ELSE "none"]
          /\ responseListeners' = responseListeners \cup {r}
          /\ replyTo' = [replyTo EXCEPT ![r] = replyQueue]
          /\ repliesLeft' = [repliesLeft EXCEPT ![r] = MaxReplies]
          /\ UNCHANGED settled
  /\ UNCHANGED <<clientChannel, replyQueue, isConnected, clientChans, clientReg, clientLink,
                 clientRecreate, clientPc, clientClosing, replyBox>>
  /\ UNCHANGED clientPendingCount
  /\ UNCHANGED <<coreVars, transportVars, callVars, obsVars, waitVars, serverVars, utilVars>>

\* The server's handler calls reply(): a message for the reply queue, dropped
\* by the broker when the queue is gone.
ServerReplies(r) ==
  /\ repliesLeft[r] > 0
  /\ repliesLeft' = [repliesLeft EXCEPT ![r] = @ - 1]
  /\ replyBox' = [replyBox EXCEPT ![r] =
                    IF clientChans[replyTo[r]] = "open" THEN @ + 1 ELSE @]
  /\ UNCHANGED <<clientChannel, replyQueue, isConnected, pendingRequests, responseListeners,
                 timers, clientChans, clientReg, clientLink, clientRecreate, clientPc,
                 clientClosing, requests, replyTo, settled>>
  /\ UNCHANGED clientPendingCount
  /\ UNCHANGED <<coreVars, transportVars, callVars, obsVars, waitVars, serverVars, utilVars>>

\* The consumer callback of the reply queue, resolving the promise of the
\* correlation id whether or not a listener is left for it.
ClientReplySettlesUnmatched(r) ==
  /\ replyBox[r] > 0
  /\ clientChans[replyTo[r]] = "open"
  /\ ~(clientPc = "closing" /\ clientClosing = replyTo[r])
  /\ IF clientChannel # 0
     THEN /\ replyBox' = [replyBox EXCEPT ![r] = @ - 1]
          /\ cleanup(r)
          /\ settled' = [settled EXCEPT ![r] = Append(@, "reply")]
     ELSE UNCHANGED <<replyBox, timers, responseListeners, pendingRequests, settled>>
  /\ UNCHANGED <<clientChannel, replyQueue, isConnected, clientChans, clientReg, clientLink,
                 clientRecreate, clientPc, clientClosing, requests, replyTo, repliesLeft>>
  /\ UNCHANGED clientPendingCount
  /\ UNCHANGED <<coreVars, transportVars, callVars, obsVars, waitVars, serverVars, utilVars>>

\* The consumer callback of the reply queue: lines 274-281.  The listener,
\* when there is one, is cleanupAndResolve (lines 335-343).  A channel whose
\* close() has been called drops the deliveries that still come in.
ClientReply(r) ==
  /\ replyBox[r] > 0
  /\ clientChans[replyTo[r]] = "open"
  /\ ~(clientPc = "closing" /\ clientClosing = replyTo[r])
  /\ IF clientChannel # 0
     THEN /\ replyBox' = [replyBox EXCEPT ![r] = @ - 1]
          /\ IF r \in responseListeners
             THEN /\ cleanup(r)
                  /\ settled' = [settled EXCEPT ![r] = Append(@, "reply")]
             ELSE UNCHANGED <<timers, responseListeners, pendingRequests, settled>>
     ELSE UNCHANGED <<replyBox, timers, responseListeners, pendingRequests, settled>>
  /\ UNCHANGED <<clientChannel, replyQueue, isConnected, clientChans, clientReg, clientLink,
                 clientRecreate, clientPc, clientClosing, requests, replyTo, repliesLeft>>
  /\ UNCHANGED clientPendingCount
  /\ UNCHANGED <<coreVars, transportVars, callVars, obsVars, waitVars, serverVars, utilVars>>

\* The request timer fires: lines 326-329
ClientTimerFires(r) ==
  /\ timers[r] = "armed"
  /\ timers' = [timers EXCEPT ![r] = "fired"]
  /\ responseListeners' = responseListeners \ {r}
  /\ pendingRequests' = pendingRequests \ {r}
  /\ settled' = [settled EXCEPT ![r] = Append(@, "timeout")]
  /\ UNCHANGED <<clientChannel, replyQueue, isConnected, clientChans, clientReg, clientLink,
                 clientRecreate, clientPc, clientClosing, requests, replyTo, repliesLeft,
                 replyBox>>
  /\ UNCHANGED clientPendingCount
  /\ UNCHANGED <<coreVars, transportVars, callVars, obsVars, waitVars, serverVars, utilVars>>

\* shutdown(options) with its count taken after pendingRequests.clear()
ClientShutdownStartCountsAfterClear(force) ==
  /\ clientPc \in {"idle", "returned"}
  /\ isConnected' = FALSE
  /\ IF force
     THEN /\ timers' = [r \in ReqIds |->
                          IF r \in pendingRequests /\ timers[r] = "armed" THEN "cleared"
                          ELSE timers[r]]
          /\ responseListeners' = responseListeners \ pendingRequests
          /\ settled' = [r \in ReqIds |->
                           IF r \in pendingRequests THEN Append(settled[r], "shutdown")
                           ELSE settled[r]]
     ELSE UNCHANGED <<timers, responseListeners, settled>>
  /\ pendingRequests' = {}
  /\ clientPendingCount' = Cardinality(pendingRequests')
  /\ IF clientChannel # 0
     THEN /\ clientReg' =
               IF clientReg.registered /\ clientReg.channel = clientChannel
               THEN [clientReg EXCEPT !.registered = FALSE]
               ELSE clientReg
          /\ clientClosing' = clientChannel
          /\ clientPc' = "closing"
     ELSE /\ clientPc' = "returned"
          /\ UNCHANGED <<clientReg, clientClosing>>
  /\ UNCHANGED <<clientChannel, replyQueue, clientChans, clientLink, clientRecreate,
                 requests, replyTo, repliesLeft, replyBox>>
  /\ UNCHANGED <<coreVars, transportVars, callVars, obsVars, waitVars, serverVars, utilVars>>

\* shutdown(options) up to its await: lines 376-397
ClientShutdownStart(force) ==
  /\ clientPc \in {"idle", "returned"}
  /\ isConnected' = FALSE
  /\ IF force
     THEN /\ timers' = [r \in ReqIds |->
                          IF r \in pendingRequests /\ timers[r] = "armed" THEN "cleared"
                          ELSE timers[r]]
          /\ responseListeners' = responseListeners \ pendingRequests
          /\ settled' = [r \in ReqIds |->
                           IF r \in pendingRequests THEN Append(settled[r], "shutdown")
                           ELSE settled[r]]
     ELSE UNCHANGED <<timers, responseListeners, settled>>
  /\ clientPendingCount' = Cardinality(pendingRequests)
  /\ pendingRequests' = {}
  /\ IF clientChannel # 0
     THEN \* unregisterChannel(this.channel), then await this.channel.close()
          /\ clientReg' =
               IF clientReg.registered /\ clientReg.channel = clientChannel
               THEN [clientReg EXCEPT !.registered = FALSE]
               ELSE clientReg
          /\ clientClosing' = clientChannel
          /\ clientPc' = "closing"
     ELSE /\ clientPc' = "returned"
          /\ UNCHANGED <<clientReg, clientClosing>>
  /\ UNCHANGED <<clientChannel, replyQueue, clientChans, clientLink, clientRecreate,
                 requests, replyTo, repliesLeft, replyBox>>
  /\ UNCHANGED <<coreVars, transportVars, callVars, obsVars, waitVars, serverVars, utilVars>>

\* shutdown(): channel.close() has settled, lines 398-409.  Closing an open
\* channel makes it emit 'close', which its listener of
\* setupChannelListeners answers with recreateSingleChannel.
ClientShutdownClosed ==
  /\ clientPc = "closing"
  /\ clientChans' = [clientChans EXCEPT ![clientClosing] = "closed"]
  /\ replyBox' = RepliesAfterClose({clientClosing})
  /\ clientRecreate' = (clientRecreate \/
                          (clientChans[clientClosing] = "open" /\ clientLink = "up"))
  /\ clientChannel' = 0
  /\ replyQueue' = 0
  /\ clientClosing' = 0
  /\ clientPc' = "returned"
  /\ UNCHANGED <<isConnected, pendingRequests, responseListeners, timers, clientReg,
                 clientLink, requests, replyTo, repliesLeft, settled>>
  /\ UNCHANGED clientPendingCount
  /\ UNCHANGED <<coreVars, transportVars, callVars, obsVars, waitVars, serverVars, utilVars>>

\* The manager loses its connection: its channels are gone, it forgets the
\* channel of every entry and emits 'disconnected' (lines 240-243).
ClientDisconnected ==
  /\ clientLink = "up"
  /\ clientLink' = "lost"
  /\ isConnected' = FALSE
  /\ clientChans' = [c \in ClientChanIds |->
                       IF clientChans[c] = "open" THEN "closed" ELSE clientChans[c]]
  /\ replyBox' = [r \in ReqIds |-> 0]
  /\ clientReg' = [clientReg EXCEPT !.channel = 0]
  /\ clientRecreate' = FALSE
  /\ UNCHANGED <<clientChannel, replyQueue, pendingRequests, responseListeners, timers,
                 clientPc, clientClosing, requests, replyTo, repliesLeft, settled>>
  /\ UNCHANGED clientPendingCount
  /\ UNCHANGED <<coreVars, transportVars, callVars, obsVars, waitVars, serverVars, utilVars>>

\* setupChannel(channel): lines 262-284
ClientSetupChannel(ch) ==
  /\ clientChans' = [clientChans EXCEPT ![ch] = "open"]
  /\ clientReg' = [clientReg EXCEPT !.channel = ch]
  /\ clientChannel' = ch
  /\ replyQueue' = ch

\* The manager reconnects: recreateChannels() runs the setup of the entries
\* still registered, then 'reconnected' is emitted (lines 249-252).
ClientReconnected ==
  LET ch == FreshClientChan IN
  /\ clientLink = "lost"
  /\ clientLink' = "up"
  /\ isConnected' = TRUE
  /\ IF clientReg.registered
     THEN ch # 0 /\ ClientSetupChannel(ch)
     ELSE UNCHANGED <<clientChans, clientReg, clientChannel, replyQueue>>
  /\ UNCHANGED <<pendingRequests, responseListeners, timers, clientRecreate, clientPc,
                 clientClosing, requests, replyTo, repliesLeft, replyBox, settled>>
  /\ UNCHANGED clientPendingCount
  /\ UNCHANGED <<coreVars, transportVars, callVars, obsVars, waitVars, serverVars, utilVars>>

\* The broker closes the client's channel (a channel-level error).
ClientChannelClosed(ch) ==
  /\ clientChans[ch] = "open"
  /\ clientLink = "up"
  /\ clientPc # "closing" \/ clientClosing # ch
  /\ clientChans' = [clientChans EXCEPT ![ch] = "closed"]
  /\ replyBox' = RepliesAfterClose({ch})
  /\ clientRecreate' = TRUE
  /\ UNCHANGED <<clientChannel, replyQueue, isConnected, pendingRequests, responseListeners,
                 timers, clientReg, clientLink, clientPc, clientClosing, requests, replyTo,
                 repliesLeft, settled>>
  /\ UNCHANGED clientPendingCount
  /\ UNCHANGED <<coreVars, transportVars, callVars, obsVars, waitVars, serverVars, utilVars>>

\* recreateSingleChannel(registered) of the client's entry completes.
ClientChannelRecreated ==
  LET ch == FreshClientChan IN
  /\ clientRecreate
  /\ clientLink = "up"
  /\ ch # 0
  /\ clientRecreate' = FALSE
  /\ ClientSetupChannel(ch)
  /\ UNCHANGED <<isConnected, pendingRequests, responseListeners, timers, clientLink,
                 clientPc, clientClosing, requests, replyTo, repliesLeft, replyBox, settled>>
  /\ UNCHANGED clientPendingCount
  /\ UNCHANGED <<coreVars, transportVars, callVars, obsVars, waitVars, serverVars, utilVars>>


(***************************************************************************)
(* RMQServer and the broker's side of its queues                           *)
(***************************************************************************)
ServerChanIds == 1..MaxServerChan
DeliveryIds == 1..MaxDeliveries
MsgIds == 1..MaxMsg

\* options.timeout of shutdown(): 0, or the default of line 258.
DefaultTimeout == 30000
Timeouts == {0, DefaultTimeout}

\* Routing keys: "work" has a handler registered, "other" has none.
HandlerKeys == {"work"}
RoutingKeys == {"work", "other"}

\* A message: its payload (the id of the message first published and whether
\* it parses as JSON), its routing key, and the headers x-retry-count (-1:
\* absent) and x-original-routing-key ("none": absent).
NoMsg == [id |-> 0, valid |-> FALSE, key |-> "none", rc |-> -1, ork |-> "none"]
NoDelivery == [status |-> "unused", msg |-> NoMsg, chan |-> 0, tag |-> 0, acks |-> 0,
               broker |-> "none", raised |-> FALSE, tracked |-> FALSE]

InitServerState ==
  /\ serverChannel = 0
  /\ isListening = FALSE
  /\ consumerTag = 0
  /\ inFlightHandlers = {}
  /\ serverChans = [c \in ServerChanIds |-> "unused"]
  /\ serverReg = [registered |-> FALSE, channel |-> 0]
  /\ serverLink = "none"
  /\ serverRecreate = FALSE
  /\ serverPc = "idle"
  /\ serverForce = FALSE
  /\ serverClosing = 0
  /\ timedOut = FALSE
  /\ serverTimeout = DefaultTimeout
  /\ pendingCount = -1
  /\ serverConsuming = {}
  /\ serverCancelTag = 0
  /\ mainQueue = <<>>
  /\ dlq = <<>>
  /\ consumers = {}
  /\ tagCount = [c \in ServerChanIds |-> 0]
  /\ deliveries = [d \in DeliveryIds |-> NoDelivery]
  /\ published = 0
  /\ handlerCalls = [m \in MsgIds |-> <<>>]
  /\ retryPublished = [d \in DeliveryIds |-> <<>>]

\* The defaults of the constructor (lines 69-73) and a handler registered
\* without options.
InitServer ==
  /\ InitServerState
  /\ publishLimit = 0
  /\ defaultRetryOptions = [maxRetries |-> 3, enabled |-> FALSE]
  /\ handlerOptions = [maxRetries |-> -1, retryEnabled |-> "unset"]

FreshServerChan ==
  IF \E c \in ServerChanIds : serverChans[c] = "unused"
  THEN CHOOSE c \in ServerChanIds :
         serverChans[c] = "unused" /\ \A d \in ServerChanIds : d < c => serverChans[d] # "unused"
  ELSE 0

FreshDelivery ==
  IF \E d \in DeliveryIds : deliveries[d].status = "unused"
  THEN CHOOSE d \in DeliveryIds :
         deliveries[d].status = "unused"
         /\ \A e \in DeliveryIds : e < d => deliveries[e].status # "unused"
  ELSE 0

\* processMessage: retryOptions, lines 209-213
RetryOptions ==
  [maxRetries |-> IF handlerOptions.maxRetries # -1 THEN handlerOptions.maxRetries
                  ELSE defaultRetryOptions.maxRetries,
   enabled |-> IF handlerOptions.retryEnabled # "unset"
               THEN handlerOptions.retryEnabled = "true"
               ELSE defaultRetryOptions.enabled]

\* processMessage: retryCount, line 180
RetryCount(m) == IF m.rc = -1 \/ m.rc = 0 THEN 0 ELSE m.rc

\* The retry publish carrying the headers of the delivery as they came.
RetryMessageSameCount(m) == [m EXCEPT !.ork = m.key]

\* processMessage: the message of the retry publish, lines 222-228
RetryMessage(m) == [m EXCEPT !.rc = RetryCount(m) + 1, !.ork = m.key]

(***************************************************************************)
(* The topology setupChannel() declares, lines 87-116                      *)
(***************************************************************************)
\* assertExchange(channel, this.exchange): the type defaults to 'direct'.
ExchangeType == "direct"

\* bindQueue calls: the retry queue with '#', the main queue with every
\* routing key that has a handler.
Bindings == {[queue |-> "retry", key |-> "#"]}
              \cup {[queue |-> "main", key |-> k] : k \in HandlerKeys}

\* The broker's match of a binding key with a routing key made of one word:
\* equality for a direct exchange, where '#' is a key like any other; for a
\* topic exchange '#' matches every key.
Matches(type, bindingKey, routingKey) ==
  IF type = "topic" THEN bindingKey = "#" \/ bindingKey = routingKey
  ELSE bindingKey = routingKey

\* The queues a message published to this.exchange with this key goes to.
Routed(routingKey) ==
  {b.queue : b \in {x \in Bindings : Matches(ExchangeType, x.key, routingKey)}}

\* The main queue after the retry publish of lines 224-228.
AfterRetryPublish(mq, m) ==
  IF "main" \in Routed(RetryMessage(m).key) THEN Append(mq, RetryMessage(m)) ELSE mq

\* The test of line 221 without its retryOptions.enabled.
ShouldRetryIgnoresEnabled(m) == RetryCount(m) < RetryOptions.maxRetries

\* The retry test letting a message with retryCount = maxRetries through.
ShouldRetryOnceMore(m) == RetryOptions.enabled /\ RetryCount(m) <= RetryOptions.maxRetries

\* processMessage: the test of line 221
ShouldRetry(m) == RetryOptions.enabled /\ RetryCount(m) < RetryOptions.maxRetries

\* The messages of the deliveries of dl still unacked on the channels chs,
\* oldest first: the broker puts them back when the channel goes.
RECURSIVE UnackedFrom(_, _, _)
UnackedFrom(dl, chs, d) ==
  IF d > MaxDeliveries THEN <<>>
  ELSE (IF dl[d].broker = "unacked" /\ dl[d].chan \in chs THEN <<dl[d].msg>> ELSE <<>>)
       \o UnackedFrom(dl, chs, d + 1)

Requeued(dl, chs) ==
  [d \in DeliveryIds |->
     IF dl[d].broker = "unacked" /\ dl[d].chan \in chs
     THEN [dl[d] EXCEPT !.broker = "requeued"] ELSE dl[d]]

\* The channels chs are closed, by whichever side: with deliveries dl and the
\* main queue mq at that moment.
ServerChansClosed(chs, dl, mq) ==
  /\ serverChans' = [c \in ServerChanIds |-> IF c \in chs THEN "closed" ELSE serverChans[c]]
  /\ consumers' = consumers \ chs
  /\ deliveries' = Requeued(dl, chs)
  /\ mainQueue' = mq \o UnackedFrom(dl, chs, 1)

\* this.channel.ack(msg) throws: this.channel is null, or the channel is closed.
AckThrows == serverChannel = 0 \/ serverChans[serverChannel] # "open"

\* The delivery the broker takes an ack of d's tag on this.channel to mean.
AckTarget(dl, d) ==
  LET hit == {e \in DeliveryIds : /\ dl[e].broker = "unacked"
                                  /\ dl[e].chan = serverChannel
                                  /\ dl[e].tag = dl[d].tag} IN
  IF hit = {} THEN 0 ELSE CHOOSE e \in hit : TRUE

\* processMessage returning for delivery d without the call of
\* this.channel.ack(msg).
AckForgotten(dl, d, mq) ==
  /\ deliveries' = [dl EXCEPT ![d].status = "done"]
  /\ mainQueue' = mq
  /\ UNCHANGED <<serverChans, consumers, serverRecreate>>

\* this.channel.ack(msg) for delivery d, with deliveries dl and main queue mq
\* at that moment.  A tag the channel does not know is a channel error: the
\* broker closes the channel.
Ack(dl, d, mq) ==
  LET t == AckTarget(dl, d)
      dl1 == [dl EXCEPT ![d].status = "done", ![d].acks = @ + 1] IN
  IF t # 0
  THEN /\ deliveries' = [dl1 EXCEPT ![t].broker = "acked"]
       /\ mainQueue' = mq
       /\ UNCHANGED <<serverChans, consumers, serverRecreate>>
  ELSE /\ ServerChansClosed({serverChannel}, dl1, mq)
       /\ serverRecreate' = (serverRecreate \/ serverLink = "up")

\* processMessage rejects with the exception the ack, the publish or the
\* sendToQueue raised: nothing was sent for the delivery.
Crashed(dl, d, mq) ==
  /\ deliveries' = [dl EXCEPT ![d].status = "crashed"]
  /\ mainQueue' = mq
  /\ UNCHANGED <<serverChans, consumers, serverRecreate>>

\* setupChannel(channel): lines 84-131
ServerSetupChannel(ch) ==
  /\ serverReg' = [serverReg EXCEPT !.channel = ch]
  /\ serverChannel' = ch
  /\ serverConsuming' = IF isListening THEN serverConsuming \cup {ch} ELSE serverConsuming

\* setupChannel(): channel.consume() has settled, lines 125-128
ServerConsumeSettled(c) ==
  /\ c \in serverConsuming
  /\ serverConsuming' = serverConsuming \ {c}
  /\ consumerTag' = IF serverChans[c] = "open" THEN c ELSE consumerTag
  /\ UNCHANGED <<serverChannel, isListening, inFlightHandlers, defaultRetryOptions,
                 handlerOptions, serverCancelTag, serverChans, serverReg, serverLink, serverRecreate,
                 serverPc, serverForce, serverClosing, timedOut, serverTimeout,
                 pendingCount, mainQueue, dlq, consumers, tagCount, deliveries, published,
                 publishLimit, handlerCalls, retryPublished>>
  /\ UNCHANGED <<coreVars, transportVars, callVars, obsVars, waitVars, clientVars, utilVars>>

\* listen(): lines 140-160
ServerListen ==
  LET ch == FreshServerChan IN
  /\ serverLink = "none" /\ serverPc = "idle"
  /\ ch # 0
  /\ serverChans' = [serverChans EXCEPT ![ch] = "open"]
  /\ serverReg' = [registered |-> TRUE, channel |-> ch]
  /\ serverChannel' = ch
  /\ isListening' = TRUE
  /\ consumerTag' = ch
  /\ consumers' = consumers \cup {ch}
  /\ serverLink' = "up"
  /\ UNCHANGED <<inFlightHandlers, defaultRetryOptions, handlerOptions, serverCancelTag, serverTimeout, pendingCount, serverConsuming, serverRecreate,
                 serverPc, serverForce, serverClosing, timedOut, mainQueue, dlq, tagCount,
                 deliveries, published, publishLimit, handlerCalls, retryPublished>>
  /\ UNCHANGED <<coreVars, transportVars, callVars, obsVars, waitVars, clientVars, utilVars>>

\* A client publishes a message that the exchange routes to the main queue.
Publish(k, valid) ==
  /\ serverLink # "none"
  /\ published < publishLimit
  /\ published' = published + 1
  /\ mainQueue' = Append(mainQueue, [id |-> published + 1, valid |-> valid, key |-> k,
                                     rc |-> -1, ork |-> "none"])
  /\ UNCHANGED <<serverChannel, isListening, consumerTag, inFlightHandlers,
                 defaultRetryOptions, handlerOptions, serverCancelTag, serverTimeout, pendingCount, serverConsuming, serverChans, serverReg, serverLink,
                 serverRecreate, serverPc, serverForce, serverClosing, timedOut, dlq,
                 consumers, tagCount, deliveries, handlerCalls, retryPublished,
                 publishLimit>>
  /\ UNCHANGED <<coreVars, transportVars, callVars, obsVars, waitVars, clientVars, utilVars>>

\* The broker delivers the head of the main queue to the consumer on channel
\* c: handleMessage (lines 162-174) and processMessage up to its await of
\* the handler (lines 176-216).  The call of processMessage (line 166) runs
\* the chain up to its first await before line 167 adds the entry: tracked
\* is whether the entry is in inFlightHandlers when the chain begins.
Deliver(c) ==
  LET d == FreshDelivery
      m == Head(mainQueue)
      dl == [deliveries EXCEPT ![d] = [status |-> "skipped", msg |-> m, chan |-> c,
                                       tag |-> tagCount[c] + 1, acks |-> 0,
                                       broker |-> "unacked", raised |-> FALSE,
                                       tracked |-> FreshDelivery \in inFlightHandlers]] IN
  /\ mainQueue # <<>>
  /\ c \in consumers
  /\ ~(serverPc = "closing" /\ serverClosing = c)   \* close() called: deliveries dropped
  /\ d # 0
  /\ tagCount' = [tagCount EXCEPT ![c] = @ + 1]
  /\ IF serverChannel = 0
     THEN \* line 163
          /\ deliveries' = dl
          /\ mainQueue' = Tail(mainQueue)
          /\ UNCHANGED <<serverChans, consumers, serverRecreate, inFlightHandlers,
                         handlerCalls>>
     ELSE IF m.key \notin HandlerKeys \/ ~m.valid
     THEN \* no handler (lines 235-238) or no JSON (lines 189-195): ack
          /\ IF AckThrows THEN Crashed(dl, d, Tail(mainQueue))
             ELSE Ack(dl, d, Tail(mainQueue))
          /\ UNCHANGED <<inFlightHandlers, handlerCalls>>
     ELSE \* the middleware chain and the handler start
          /\ deliveries' = [dl EXCEPT ![d].status = "running"]
          /\ mainQueue' = Tail(mainQueue)
          /\ inFlightHandlers' = inFlightHandlers \cup {d}
          /\ handlerCalls' = [handlerCalls EXCEPT ![m.id] = Append(@, RetryCount(m))]
          /\ UNCHANGED <<serverChans, consumers, serverRecreate>>
  /\ UNCHANGED <<serverChannel, isListening, consumerTag, defaultRetryOptions,
                 handlerOptions, serverCancelTag, serverTimeout, pendingCount, serverConsuming, serverReg, serverLink, serverPc, serverForce,
                 serverClosing, timedOut, dlq, published, publishLimit, retryPublished>>
  /\ UNCHANGED <<coreVars, transportVars, callVars, obsVars, waitVars, clientVars, utilVars>>

\* The middleware chain of delivery d settles: processMessage from line 217
\* to its end, then the finally of handleMessage.  raises: the chain threw.
HandlerDone(d, raises) ==
  LET m == deliveries[d].msg
      dl == [deliveries EXCEPT ![d].raised = raises] IN
  /\ deliveries[d].status = "running"
  /\ inFlightHandlers' = inFlightHandlers \ {d}
  /\ IF ~raises /\ ~AckThrows
     THEN \* line 217
          /\ Ack(dl, d, mainQueue)
          /\ UNCHANGED <<dlq, retryPublished>>
     ELSE IF AckThrows
     THEN \* the catch block raises in its turn: publish or sendToQueue on a
          \* closed channel, publish or ack on null
          /\ Crashed(dl, d, mainQueue)
          /\ UNCHANGED <<dlq, retryPublished>>
     ELSE IF ShouldRetry(m)
     THEN \* lines 221-229
          /\ retryPublished' = [retryPublished EXCEPT ![d] = Append(@, RetryMessage(m))]
          /\ Ack(dl, d, AfterRetryPublish(mainQueue, m))
          /\ UNCHANGED dlq
     ELSE \* lines 230-233 and sendToDLQ, lines 241-249
          /\ dlq' = Append(dlq, m)
          /\ Ack(dl, d, mainQueue)
          /\ UNCHANGED retryPublished
  /\ UNCHANGED <<serverChannel, isListening, consumerTag, defaultRetryOptions,
                 handlerOptions, serverCancelTag, serverTimeout, pendingCount, serverConsuming, serverReg, serverLink, serverPc, serverForce,
                 serverClosing, timedOut, tagCount, published, publishLimit, handlerCalls>>
  /\ UNCHANGED <<coreVars, transportVars, callVars, obsVars, waitVars, clientVars, utilVars>>

\* shutdown(): lines 294-302, from the end of the wait to the await of
\* channel.close()
ServerBeginClose ==
  /\ pendingCount' = Cardinality(inFlightHandlers)
  /\ IF serverChannel # 0
     THEN /\ serverReg' =
               IF serverReg.registered /\ serverReg.channel = serverChannel
               THEN [serverReg EXCEPT !.registered = FALSE]
               ELSE serverReg
          /\ serverClosing' = serverChannel
          /\ serverPc' = "closing"
     ELSE /\ serverPc' = "returned"
          /\ UNCHANGED <<serverReg, serverClosing>>

\* shutdown(): step 2 with force set although handlers are left to wait for.
ServerAwaitHandlersTimedOut(force, timeout) ==
  IF ~force /\ inFlightHandlers # {}
  THEN IF timeout = 0
       THEN timedOut' = TRUE /\ ServerBeginClose
       ELSE /\ serverPc' = "wait"
            /\ timedOut' = FALSE
            /\ UNCHANGED <<serverReg, serverClosing, pendingCount>>
  ELSE /\ timedOut' = (inFlightHandlers # {})
       /\ ServerBeginClose

\* shutdown(): step 2, lines 273-294, up to its first await.  With nothing
\* elapsed the test elapsed >= timeout holds for a timeout of 0 alone.
ServerAwaitHandlers(force, timeout) ==
  IF ~force /\ inFlightHandlers # {}
  THEN IF timeout = 0
       THEN timedOut' = TRUE /\ ServerBeginClose
       ELSE /\ serverPc' = "wait"
            /\ timedOut' = FALSE
            /\ UNCHANGED <<serverReg, serverClosing, pendingCount>>
  ELSE /\ timedOut' = FALSE
       /\ ServerBeginClose

\* shutdown(options) up to its first await: lines 257-266
ServerShutdownStart(force, timeout) ==
  /\ serverPc \in {"idle", "returned"}
  /\ isListening' = FALSE
  /\ serverForce' = force
  /\ serverTimeout' = timeout
  /\ IF serverChannel # 0 /\ consumerTag # 0
     THEN /\ serverPc' = "cancel"
          /\ serverClosing' = serverChannel
          /\ serverCancelTag' = consumerTag
          /\ timedOut' = FALSE
          /\ pendingCount' = -1
          /\ UNCHANGED serverReg
     ELSE /\ ServerAwaitHandlers(force, timeout)
          /\ UNCHANGED serverCancelTag
  /\ UNCHANGED <<serverChannel, consumerTag, inFlightHandlers, defaultRetryOptions,
                 handlerOptions, serverChans, serverLink, serverRecreate, mainQueue, dlq,
                 consumers, tagCount, deliveries, published, publishLimit, handlerCalls,
                 retryPublished, serverConsuming>>
  /\ UNCHANGED <<coreVars, transportVars, callVars, obsVars, waitVars, clientVars, utilVars>>

\* shutdown(): channel.cancel(consumerTag) has settled, lines 266-271
\* The broker answers the methods of a channel in their order: a consume()
\* issued on it earlier has settled.
ServerCancelDone ==
  /\ serverPc = "cancel"
  /\ serverClosing \notin serverConsuming
  /\ IF serverChans[serverClosing] = "open"
     THEN /\ consumers' = consumers \ {serverCancelTag}
          /\ consumerTag' = 0
     ELSE UNCHANGED <<consumers, consumerTag>>
  /\ serverCancelTag' = 0
  /\ ServerAwaitHandlers(serverForce, serverTimeout)
  /\ UNCHANGED <<serverChannel, isListening, inFlightHandlers, defaultRetryOptions,
                 handlerOptions, serverChans, serverLink, serverRecreate, serverForce,
                 serverTimeout, mainQueue, dlq, tagCount, deliveries, published,
                 publishLimit, handlerCalls, retryPublished, serverConsuming>>
  /\ UNCHANGED <<coreVars, transportVars, callVars, obsVars, waitVars, clientVars, utilVars>>

\* shutdown(): the wait loop giving up although the time is not up.
ServerWaitOverEarly(to) ==
  /\ serverPc = "wait"
  /\ timedOut' = to
  /\ ServerBeginClose
  /\ UNCHANGED <<serverChannel, isListening, consumerTag, inFlightHandlers,
                 defaultRetryOptions, handlerOptions, serverCancelTag, serverChans,
                 serverLink, serverRecreate, serverForce, serverTimeout, mainQueue, dlq,
                 consumers, tagCount, deliveries, published, publishLimit, handlerCalls,
                 retryPublished, serverConsuming>>
  /\ UNCHANGED <<coreVars, transportVars, callVars, obsVars, waitVars, clientVars, utilVars>>

\* shutdown(): the wait loop ends at its test, lines 277-285: no handler is
\* left, or (to) the time is up with handlers left
ServerWaitOver(to) ==
  /\ serverPc = "wait"
  /\ to <=> inFlightHandlers # {}
  /\ timedOut' = to
  /\ ServerBeginClose
  /\ UNCHANGED <<serverChannel, isListening, consumerTag, inFlightHandlers,
                 defaultRetryOptions, handlerOptions, serverCancelTag, serverChans, serverLink,
                 serverRecreate, serverForce, serverTimeout, mainQueue, dlq, consumers,
                 tagCount, deliveries, published, publishLimit, handlerCalls,
                 retryPublished, serverConsuming>>
  /\ UNCHANGED <<coreVars, transportVars, callVars, obsVars, waitVars, clientVars, utilVars>>

\* shutdown(): channel.close() has settled, lines 303-320
ServerShutdownClosed ==
  /\ serverPc = "closing"
  /\ ServerChansClosed({serverClosing}, deliveries, mainQueue)
  /\ serverRecreate' = (serverRecreate \/
                          (serverChans[serverClosing] = "open" /\ serverLink = "up"))
  /\ serverChannel' = 0
  /\ serverClosing' = 0
  /\ serverPc' = "returned"
  /\ UNCHANGED <<isListening, consumerTag, inFlightHandlers, defaultRetryOptions,
                 handlerOptions, serverCancelTag, serverReg, serverLink, serverForce, timedOut,
                 serverTimeout, pendingCount, serverConsuming, dlq,
                 tagCount, published, publishLimit, handlerCalls, retryPublished>>
  /\ UNCHANGED <<coreVars, transportVars, callVars, obsVars, waitVars, clientVars, utilVars>>

\* The manager loses its connection.
ServerDisconnected ==
  /\ serverLink = "up"
  /\ serverLink' = "lost"
  /\ ServerChansClosed({c \in ServerChanIds : serverChans[c] = "open"}, deliveries, mainQueue)
  /\ serverReg' = [serverReg EXCEPT !.channel = 0]
  /\ serverRecreate' = FALSE
  /\ UNCHANGED <<serverChannel, isListening, consumerTag, inFlightHandlers,
                 defaultRetryOptions, handlerOptions, serverCancelTag, serverTimeout, pendingCount, serverConsuming, serverPc, serverForce, serverClosing,
                 timedOut, dlq, tagCount, published, publishLimit, handlerCalls, retryPublished>>
  /\ UNCHANGED <<coreVars, transportVars, callVars, obsVars, waitVars, clientVars, utilVars>>

\* A fresh channel for the server's entry, and its setup.
ServerNewChannel(ch) ==
  /\ serverChans' = [serverChans EXCEPT ![ch] = "open"]
  /\ consumers' = IF isListening THEN consumers \cup {ch} ELSE consumers
  /\ ServerSetupChannel(ch)

\* The manager reconnects: recreateChannels() for the entry if it is still
\* registered.
ServerReconnected ==
  LET ch == FreshServerChan IN
  /\ serverLink = "lost"
  /\ serverLink' = "up"
  /\ IF serverReg.registered
     THEN ch # 0 /\ ServerNewChannel(ch)
     ELSE UNCHANGED <<serverChans, consumers, serverReg, serverChannel, serverConsuming>>
  /\ UNCHANGED <<isListening, consumerTag, inFlightHandlers, defaultRetryOptions,
                 handlerOptions, serverCancelTag, serverTimeout, pendingCount,
                 serverRecreate, serverPc, serverForce, serverClosing, timedOut, mainQueue,
                 dlq, tagCount, deliveries, published, publishLimit, handlerCalls, retryPublished>>
  /\ UNCHANGED <<coreVars, transportVars, callVars, obsVars, waitVars, clientVars, utilVars>>

\* recreateSingleChannel(registered) of the server's entry completes.
ServerChannelRecreated ==
  LET ch == FreshServerChan IN
  /\ serverRecreate
  /\ serverLink = "up"
  /\ ch # 0
  /\ serverRecreate' = FALSE
  /\ ServerNewChannel(ch)
  /\ UNCHANGED <<isListening, consumerTag, inFlightHandlers, defaultRetryOptions,
                 handlerOptions, serverCancelTag, serverTimeout, pendingCount,
                 serverLink, serverPc, serverForce, serverClosing, timedOut, mainQueue,
                 dlq, tagCount, deliveries, published, publishLimit, handlerCalls, retryPublished>>
  /\ UNCHANGED <<coreVars, transportVars, callVars, obsVars, waitVars, clientVars, utilVars>>


(***************************************************************************)
(* The connection manager with its environment                             *)
(***************************************************************************)
CloseErrors == Errors \cup {NoError}

\* ---------------------------------------------------------------------
\* RMQConnectionManager.getInstance / resetInstance
\* ---------------------------------------------------------------------

Uris == {"amqp://a", "amqp://b"}
InstanceIds == 1..MaxGets

\* The static field instance (0: null), the uri each object was constructed
\* with, the objects close() was called on, and the calls of getInstance so
\* far: the uri asked for, the object returned, and the number of resets
\* that had happened.
NoSingleton == [instance |-> 0, uri |-> [i \in InstanceIds |-> "none"], created |-> 0,
                closed |-> {}, resets |-> 0, got |-> <<>>]

\* getInstance(uri, options): lines 47-55
getInstance(s, uri) ==
  LET new == s.created + 1
      inst == IF s.instance = 0 THEN new ELSE s.instance IN
  [s EXCEPT !.instance = inst,
            !.uri = IF s.instance = 0 THEN [@ EXCEPT ![new] = uri] ELSE @,
            !.created = IF s.instance = 0 THEN new ELSE @,
            !.got = Append(@, [uri |-> uri, instance |-> inst, resets |-> s.resets])]

\* resetInstance(): lines 60-65.  close() is called and not awaited.
resetInstance(s) ==
  IF s.instance # 0
  THEN [s EXCEPT !.instance = 0, !.closed = @ \cup {s.instance}, !.resets = @ + 1]
  ELSE s

GetInstance(uri) ==
  /\ Len(singleton.got) < MaxGets
  /\ singleton' = getInstance(singleton, uri)
  /\ UNCHANGED gs
  /\ UNCHANGED <<coreVars, transportVars, callVars, obsVars, waitVars, clientVars, serverVars,
                 chain, lsn>>

ResetInstance ==
  /\ singleton' = resetInstance(singleton)
  /\ UNCHANGED gs
  /\ UNCHANGED <<coreVars, transportVars, callVars, obsVars, waitVars, clientVars, serverVars,
                 chain, lsn>>

\* ---------------------------------------------------------------------
\* performGracefulShutdown
\* ---------------------------------------------------------------------

ClientIndexes == 1..MaxClients

\* What a shutdown() may return: the server's {success, pendingCount,
\* timedOut} with timedOut only when handlers are left, a client's
\* pendingCount.
ShutdownCounts == 0..MaxPending
ServerResults ==
  {[pendingCount |-> n, timedOut |-> t] : n \in ShutdownCounts, t \in BOOLEAN} \
    {[pendingCount |-> 0, timedOut |-> TRUE]}
NoServerResult == [pendingCount |-> -1, timedOut |-> FALSE]

Event(what, who) == [what |-> what, who |-> who]

\* No call of performGracefulShutdown: the options (a server or none, the
\* number of clients, an onShutdown or none), the results so far, the
\* clients whose shutdown() is awaited, what was called and what has
\* settled, in order, and the result returned.
NoGs == [pc |-> "idle", server |-> FALSE, clients |-> 0, onShutdown |-> FALSE,
         serverResult |-> NoServerResult, clientResults |-> [i \in ClientIndexes |-> -1],
         awaited |-> {}, log |-> <<>>, totalPending |-> -1, timedOut |-> FALSE]

RECURSIVE Sum(_, _)
Sum(f, S) == IF S = {} THEN 0 ELSE LET i == CHOOSE i \in S : TRUE IN f[i] + Sum(f, S \ {i})

\* The result with the counts of the clients left out.
GsResultServerOnly(g) ==
  [g EXCEPT !.totalPending = IF g.server THEN g.serverResult.pendingCount ELSE 0,
            !.timedOut = IF g.server THEN g.serverResult.timedOut ELSE FALSE]

\* Lines 135-145
GsResult(g) ==
  [g EXCEPT !.totalPending = (IF g.server THEN g.serverResult.pendingCount ELSE 0)
                               + Sum(g.clientResults, 1..g.clients),
            !.timedOut = IF g.server THEN g.serverResult.timedOut ELSE FALSE]

\* Lines 128-146: resetInstance(), then the return
GsFinish(g) ==
  /\ singleton' = resetInstance(singleton)
  /\ gs' = GsResult([g EXCEPT !.pc = "returned",
                              !.log = Append(@, Event("resetInstance", 0))])

\* Lines 123-126, when every client's shutdown() has settled
GsAfterClients(g) ==
  IF g.onShutdown
  THEN /\ gs' = [g EXCEPT !.pc = "onShutdown", !.log = Append(@, Event("onShutdown", 0))]
       /\ UNCHANGED singleton
  ELSE GsFinish(g)

RECURSIVE ClientCalls(_)
ClientCalls(n) == IF n = 0 THEN <<>> ELSE Append(ClientCalls(n - 1), Event("client.shutdown", n))

\* Lines 119-121: shutdown({force: true}) is called on every client in turn
GsClients(g) ==
  IF g.clients = 0
  THEN GsAfterClients(g)
  ELSE /\ gs' = [g EXCEPT !.pc = "clients", !.awaited = 1..g.clients,
                          !.log = @ \o ClientCalls(g.clients)]
       /\ UNCHANGED singleton

\* performGracefulShutdown(options) is called: lines 108-117
GsCall(server, clients, onShutdown) ==
  LET g == [gs EXCEPT !.server = server, !.clients = clients, !.onShutdown = onShutdown] IN
  /\ gs.pc = "idle"
  /\ IF server
     THEN /\ gs' = [g EXCEPT !.pc = "server", !.log = Append(@, Event("server.shutdown", 0))]
          /\ UNCHANGED singleton
     ELSE GsClients(g)
  /\ UNCHANGED <<coreVars, transportVars, callVars, obsVars, waitVars, clientVars, serverVars,
                 chain, lsn>>

\* server.shutdown({timeout}) settles with result r
GsServerDone(r) ==
  /\ gs.pc = "server"
  /\ GsClients([gs EXCEPT !.serverResult = r, !.log = Append(@, Event("server.done", 0))])
  /\ UNCHANGED <<coreVars, transportVars, callVars, obsVars, waitVars, clientVars, serverVars,
                 chain, lsn>>

\* The shutdown() of client i settles with pendingCount n; Promise.all
\* settles with the last of them.
GsClientDone(i, n) ==
  LET g == [gs EXCEPT !.clientResults[i] = n, !.awaited = @ \ {i},
                      !.log = Append(@, Event("client.done", i))] IN
  /\ gs.pc = "clients"
  /\ i \in gs.awaited
  /\ IF g.awaited = {} THEN GsAfterClients(g) ELSE gs' = g /\ UNCHANGED singleton
  /\ UNCHANGED <<coreVars, transportVars, callVars, obsVars, waitVars, clientVars, serverVars,
                 chain, lsn>>

\* options.onShutdown() settles
GsHookDone ==
  /\ gs.pc = "onShutdown"
  /\ GsFinish([gs EXCEPT !.log = Append(@, Event("onShutdown.done", 0))])
  /\ UNCHANGED <<coreVars, transportVars, callVars, obsVars, waitVars, clientVars, serverVars,
                 chain, lsn>>

\* ---------------------------------------------------------------------
\* MiddlewareManager
\* ---------------------------------------------------------------------

\* What a middleware does with next: "pass" awaits it and returns, "stop"
\* returns without calling it, "raise" throws without calling it,
\* "raiseAfter" awaits it and then throws, "twice" awaits it, calls and
\* awaits it a second time and returns.
Behaviours == {"pass", "stop", "raise", "raiseAfter"}
BehavioursTwice == Behaviours \cup {"twice"}

\* use(): the lists of middlewares registered, in registration order
MiddlewareLists == UNION {[1..n -> Behaviours] : n \in 0..MaxMw}

\* No call of a composed chain: middlewares are numbered from 0 as in the
\* code, and Len(middlewares) stands for the handler.
NoChain == [middlewares |-> <<>>, handler |-> "returns", index |-> -1, stack |-> <<>>,
            signal |-> "none", calls |-> <<>>, result |-> "idle"]

\* run() with index advanced twice.
runSkipping(c) ==
  LET i == c.index + 2
      el == IF i < Len(c.middlewares) THEN i ELSE Len(c.middlewares) IN
  [c EXCEPT !.index = i,
            !.stack = Append(@, [el |-> el, pc |-> "run"]),
            !.calls = Append(@, el)]

\* run(), lines 20-27, up to the call of the middleware or of the handler
run(c) ==
  LET i == c.index + 1
      el == IF i < Len(c.middlewares) THEN i ELSE Len(c.middlewares) IN
  [c EXCEPT !.index = i,
            !.stack = Append(@, [el |-> el, pc |-> "run"]),
            !.calls = Append(@, el)]

\* The frame on top of the stack ends: its caller finds its await settled.
Ended(c, how) ==
  [c EXCEPT !.stack = SubSeq(@, 1, Len(@) - 1), !.signal = how]

\* The composed function is called: lines 17-19 and 29
ComposedCall ==
  /\ chain.result = "idle"
  /\ chain' = run([chain EXCEPT !.result = "pending", !.index = -1])
  /\ UNCHANGED <<coreVars, transportVars, callVars, obsVars, waitVars, clientVars, serverVars,
                 singleton, gs, lsn>>

\* The middleware or the handler that was called last runs.
ChainStep ==
  LET top == Len(chain.stack)
      el == chain.stack[top].el IN
  /\ top > 0
  /\ chain.stack[top].pc = "run"
  /\ chain' =
       IF el = Len(chain.middlewares)
       THEN \* line 25: the handler
            Ended(chain, IF chain.handler = "raises" THEN "raised" ELSE "returned")
       ELSE CASE chain.middlewares[el + 1] \in {"pass", "raiseAfter", "twice"} ->
                   run([chain EXCEPT !.stack[top].pc = "await"])
              [] chain.middlewares[el + 1] = "stop" -> Ended(chain, "returned")
              [] chain.middlewares[el + 1] = "raise" -> Ended(chain, "raised")
  /\ UNCHANGED <<coreVars, transportVars, callVars, obsVars, waitVars, clientVars, serverVars,
                 singleton, gs, lsn>>

\* The await of next() in a middleware settles: an exception goes on to its
\* own caller.
ChainResume ==
  LET top == Len(chain.stack)
      el == chain.stack[top].el IN
  /\ top > 0
  /\ chain.stack[top].pc \in {"await", "again"}
  /\ chain.signal # "none"
  /\ chain' =
       IF chain.signal = "raised" \/ chain.middlewares[el + 1] = "raiseAfter"
       THEN Ended(chain, "raised")
       ELSE IF chain.middlewares[el + 1] = "twice" /\ chain.stack[top].pc = "await"
       THEN \* the middleware calls next() once more: run() again, lines 20-27
            run([chain EXCEPT !.stack[top].pc = "again"])
       ELSE Ended(chain, "returned")
  /\ UNCHANGED <<coreVars, transportVars, callVars, obsVars, waitVars, clientVars, serverVars,
                 singleton, gs, lsn>>

\* await run() of line 29 settles, and with it the promise of the caller.
ChainSettle ==
  /\ chain.result = "pending"
  /\ chain.stack = <<>>
  /\ chain.signal # "none"
  /\ chain' = [chain EXCEPT !.result = IF chain.signal = "raised" THEN "rejected"
                                       ELSE "resolved",
                            !.signal = "none"]
  /\ UNCHANGED <<coreVars, transportVars, callVars, obsVars, waitVars, clientVars, serverVars,
                 singleton, gs, lsn>>

\* ---------------------------------------------------------------------
\* RMQServer: the consumers that listen() and setupChannel() start
\* ---------------------------------------------------------------------
\* One server and the manager's registry entries it owns, one per listen()
\* call.  A consumer is active at the broker from the moment its
\* channel.consume() is issued; the call is awaited until the broker's reply
\* (a task).  The declarations of setupChannel() that precede its consume
\* are taken together with the opening of the channel.
EntryIds == 1..MaxListens
ListenChanIds == 1..MaxListenChan

\* The consume calls that can be awaiting their reply: who issued it, on
\* which channel, and the tag the broker gave the consumer.
ListenTasks == [kind : {"listenSetup", "listen", "recover", "watchdog"},
                chan : ListenChanIds, tag : 1..(MaxListenChan + MaxListens)]

NoLsn == [channel |-> 0, isListening |-> FALSE, consumerTag |-> 0, link |-> "up",
          entries |-> 0, reg |-> [e \in EntryIds |-> 0], open |-> {}, chans |-> 0,
          tags |-> 0, active |-> {}, tasks |-> {}, recover |-> <<>>]

\* channel.consume(this.mainQueueName, ...) issued on the open channel ch by
\* the caller kind: the broker starts a consumer with a tag of its own.
Consume(l, ch, kind) ==
  [l EXCEPT !.tags = @ + 1,
            !.active = @ \cup {[chan |-> ch, tag |-> l.tags + 1]},
            !.tasks = @ \cup {[kind |-> kind, chan |-> ch, tag |-> l.tags + 1]}]

\* The manager opens a channel for entry e and calls setupChannel(channel):
\* lines 84-85, and lines 123-130 when the server is listening.
OpenAndSetup(l, e, kind) ==
  LET ch == l.chans + 1
      l1 == [l EXCEPT !.chans = ch, !.reg[e] = ch, !.open = @ \cup {ch}, !.channel = ch] IN
  IF l.isListening THEN Consume(l1, ch, kind) ELSE l1

\* listen() after its createChannel() has returned: lines 147-155.  On a
\* channel that is closed the consume rejects and listen() throws.
ListenGoesOn(l) ==
  LET l1 == [l EXCEPT !.isListening = TRUE] IN
  IF l1.channel \in l1.open THEN Consume(l1, l1.channel, "listen") ELSE l1

ListenInProgress == \E t \in lsn.tasks : t.kind \in {"listenSetup", "listen"}

\* listen() is called: lines 140-146, createChannel() lines 322-338
LsnListen ==
  /\ lsn.link = "up"
  /\ ~ListenInProgress
  /\ lsn.entries < MaxListens
  /\ lsn.chans < MaxListenChan
  /\ LET e == lsn.entries + 1
         l1 == OpenAndSetup([lsn EXCEPT !.entries = e], e, "listenSetup") IN
     lsn' = IF lsn.isListening THEN l1 ELSE ListenGoesOn(l1)
  /\ UNCHANGED <<coreVars, transportVars, callVars, obsVars, waitVars, clientVars, serverVars,
                 chain, singleton, gs>>

\* The reply to a consume arrives: this.consumerTag = result.consumerTag,
\* lines 128 and 155; the listen() whose setupChannel() it was goes on.
LsnConsumeOk(t) ==
  /\ t \in lsn.tasks
  /\ t.chan \in lsn.open
  /\ LET l1 == [lsn EXCEPT !.tasks = @ \ {t}, !.consumerTag = t.tag] IN
     lsn' = IF t.kind = "listenSetup" THEN ListenGoesOn(l1) ELSE l1
  /\ UNCHANGED <<coreVars, transportVars, callVars, obsVars, waitVars, clientVars, serverVars,
                 chain, singleton, gs>>

\* The channel of a consume went before the reply: the call rejects.
LsnConsumeRejected(t) ==
  /\ t \in lsn.tasks
  /\ t.chan \notin lsn.open
  /\ lsn' = [lsn EXCEPT !.tasks = @ \ {t}]
  /\ UNCHANGED <<coreVars, transportVars, callVars, obsVars, waitVars, clientVars, serverVars,
                 chain, singleton, gs>>

\* The connection is lost: its channels and their consumers go with it.
LsnConnectionLost ==
  /\ lsn.link = "up"
  /\ lsn' = [lsn EXCEPT !.link = "down", !.open = {}, !.active = {}, !.recover = <<>>]
  /\ UNCHANGED <<coreVars, transportVars, callVars, obsVars, waitVars, clientVars, serverVars,
                 chain, singleton, gs>>

\* reconnect() has a connection: recreateChannels() starts, lines 299-300
LsnReconnected ==
  /\ lsn.link = "down"
  /\ lsn' = [lsn EXCEPT !.link = "up", !.recover = [i \in 1..lsn.entries |-> i]]
  /\ UNCHANGED <<coreVars, transportVars, callVars, obsVars, waitVars, clientVars, serverVars,
                 chain, singleton, gs>>

\* recreateChannels(): the next entry, once the setup of the one before has
\* settled, lines 300-314
LsnRecreateNext ==
  /\ lsn.link = "up"
  /\ lsn.recover # <<>>
  /\ \A t \in lsn.tasks : t.kind # "recover"
  /\ lsn.chans < MaxListenChan
  /\ lsn' = OpenAndSetup([lsn EXCEPT !.recover = Tail(@)], Head(lsn.recover), "recover")
  /\ UNCHANGED <<coreVars, transportVars, callVars, obsVars, waitVars, clientVars, serverVars,
                 chain, singleton, gs>>

\* The broker closes channel ch on a live connection: the 'close' listener
\* of its entry re-creates it, manager lines 348-380
LsnChannelClosed(ch) ==
  /\ lsn.link = "up"
  /\ ch \in lsn.open
  /\ lsn.chans < MaxListenChan
  /\ \E e \in EntryIds :
       /\ lsn.reg[e] = ch
       /\ lsn' = OpenAndSetup([lsn EXCEPT !.open = @ \ {ch},
                                          !.active = {c \in @ : c.chan # ch}],
                              e, "watchdog")
  /\ UNCHANGED <<coreVars, transportVars, callVars, obsVars, waitVars, clientVars, serverVars,
                 chain, singleton, gs>>

\* Nothing of the above is in use.
InitUtil == chain = NoChain /\ singleton = NoSingleton /\ gs = NoGs /\ lsn = NoLsn

vars == <<coreVars, transportVars, callVars, obsVars, waitVars, clientVars, serverVars,
          utilVars>>

\* The connection manager alone, under every reconnect policy.
InitConn ==
  /\ InitCore
  /\ InitUtil
  /\ callers = <<>>
  /\ enabled \in BOOLEAN
  /\ maxAttempts \in (0..MaxN) \cup {Infinity}
  /\ startsLeft = MaxStarts
  /\ InitClient
  /\ InitServer

NextConn ==
  \/ GetConnection
  \/ TimerFire
  \/ \E s \in SlotIds : AttemptTimeout(s)
  \/ LateResolve
  \/ LateReject
  \/ \E s \in SlotIds : AttemptResolve(s)
  \/ \E s \in SlotIds, e \in Errors : AttemptReject(s, e)
  \/ \E c \in ConnIds, e \in CloseErrors : ConnectionClosed(c, e)
  \/ CloseStart
  \/ CloseConnDone

SpecConn == InitConn /\ [][NextConn]_vars

(***************************************************************************)
(* The connection manager and the callers of getConnection()               *)
(***************************************************************************)
\* maxAttempts is read by scheduleReconnect() alone, which runs only with
\* reconnectOptions.enabled: it is left at its default where that is false.
InitCallers ==
  /\ InitCore
  /\ InitUtil
  /\ callers = [k \in CallerIds |-> NoCaller]
  /\ \/ enabled = TRUE /\ maxAttempts \in (0..MaxN) \cup {Infinity}
     \/ enabled = FALSE /\ maxAttempts = Infinity
  /\ startsLeft = MaxStartsCalls
  /\ InitClient
  /\ InitServer

NextCallers ==
  \/ GetConnection
  \/ GetConnectionWaits
  \/ GetConnectionServed
  \/ TimerFire
  \/ \E s \in SlotIds : AttemptTimeout(s)
  \/ \E s \in SlotIds : AttemptResolve(s)
  \/ \E s \in SlotIds, e \in ConnectErrors : AttemptReject(s, e)
  \/ \E c \in ConnIds, e \in CloseErrors : ConnectionClosed(c, e)
  \/ CloseStart
  \/ CloseConnDone

SpecCallers == InitCallers /\ [][NextCallers]_vars


\* The same for a manager that never gives up reconnecting.
InitCallersForever == InitCallers /\ enabled /\ maxAttempts = Infinity

SpecCallersForever == InitCallersForever /\ [][NextCallers]_vars

(***************************************************************************)
(* The same while nobody calls close()                                     *)
(***************************************************************************)
NextCoalesce ==
  \/ GetConnection
  \/ GetConnectionWaits
  \/ GetConnectionServed
  \/ TimerFire
  \/ \E s \in SlotIds : AttemptTimeout(s)
  \/ \E s \in SlotIds : AttemptResolve(s)
  \/ \E s \in SlotIds, e \in ConnectErrors : AttemptReject(s, e)
  \/ \E c \in ConnIds, e \in CloseErrors : ConnectionClosed(c, e)

SpecCoalesce == InitCallers /\ [][NextCoalesce]_vars

\* The connection manager with registered channels, under the default
\* reconnect policy; close() and the per-attempt timeout are left to SpecConn.
InitChan ==
  /\ InitCore
  /\ InitUtil
  /\ callers = <<>>
  /\ enabled = TRUE
  /\ maxAttempts = Infinity
  /\ startsLeft = MaxStartsChan
  /\ InitClient
  /\ InitServer

NextChan ==
  \/ GetConnection
  \/ TimerFire
  \/ \E s \in SlotIds : AttemptResolve(s)
  \/ \E s \in SlotIds : AttemptReject(s, ConnectionForced)
  \/ \E s \in SlotIds : RecreateOpenOk(s)
  \/ \E s \in SlotIds : RecreateOpenFail(s)
  \/ \E s \in SlotIds : RecreateSetupOk(s)
  \/ \E s \in SlotIds : RecreateSetupFail(s)
  \/ \E c \in ConnIds : ConnectionClosed(c, ConnectionForced)
  \/ \E ch \in ChanIds : ChannelClosed(ch)
  \/ \E r \in RegIds : WdOpenOk(r)
  \/ \E r \in RegIds : WdSettle(r)
  \/ \E b \in BOOLEAN : CreateChannel(b)
  \/ \E ch \in ChanIds : UnregisterChannel(ch)

SpecChan == InitChan /\ [][NextChan]_vars

\* The same manager where channels are only registered and recovered: no
\* channel closes by itself and none is unregistered.
NextRecover ==
  \/ GetConnection
  \/ TimerFire
  \/ \E s \in SlotIds : AttemptResolve(s)
  \/ \E s \in SlotIds : AttemptReject(s, ConnectionForced)
  \/ \E s \in SlotIds : RecreateOpenOk(s)
  \/ \E s \in SlotIds : RecreateOpenFail(s)
  \/ \E s \in SlotIds : RecreateSetupOk(s)
  \/ \E s \in SlotIds : RecreateSetupFail(s)
  \/ \E c \in ConnIds : ConnectionClosed(c, ConnectionForced)
  \/ \E b \in BOOLEAN : CreateChannel(b)

SpecRecover == InitChan /\ [][NextRecover]_vars

\* The manager with channels that close by themselves: registration,
\* recovery and the re-creation of a single channel, without close() and
\* without unregisterChannel().
NextWatch ==
  \/ GetConnection
  \/ TimerFire
  \/ \E s \in SlotIds : AttemptResolve(s)
  \/ \E s \in SlotIds : AttemptReject(s, ConnectionForced)
  \/ \E s \in SlotIds : RecreateOpenOk(s)
  \/ \E s \in SlotIds : RecreateSetupOk(s)
  \/ \E c \in ConnIds : ConnectionClosed(c, ConnectionForced)
  \/ \E ch \in ChanIds : ChannelClosed(ch)
  \/ \E r \in RegIds : WdOpenOk(r)
  \/ \E r \in RegIds : WdSettle(r)
  \/ \E b \in BOOLEAN : CreateChannel(b)

SpecWatch == InitChan /\ [][NextWatch]_vars

\* The manager with channels whose recovery is left alone: the connection
\* is lost only while no recreateChannels() is running, and createChannel
\* and the setup functions do not raise.
ConnectionClosedAtRest(c, error) ==
  /\ \A s \in SlotIds : slots[s].phase # "recreating"
  /\ ConnectionClosed(c, error)

NextListen ==
  \/ GetConnection
  \/ TimerFire
  \/ \E s \in SlotIds : AttemptResolve(s)
  \/ \E s \in SlotIds : AttemptReject(s, ConnectionForced)
  \/ \E s \in SlotIds : RecreateOpenOk(s)
  \/ \E s \in SlotIds : RecreateSetupOk(s)
  \/ \E c \in ConnIds : ConnectionClosedAtRest(c, ConnectionForced)
  \/ \E b \in BOOLEAN : CreateChannel(b)

InitListen ==
  /\ InitCore
  /\ InitUtil
  /\ callers = <<>>
  /\ enabled = TRUE
  /\ maxAttempts = Infinity
  /\ startsLeft = MaxStarts
  /\ InitClient
  /\ InitServer

SpecListen == InitListen /\ [][NextListen]_vars

\* The client with its server and its connection manager as environment.
InitProducer ==
  /\ InitCore
  /\ InitUtil
  /\ callers = <<>>
  /\ enabled = TRUE
  /\ maxAttempts = Infinity
  /\ startsLeft = 0
  /\ InitClient
  /\ InitServer

NextProducer ==
  \/ ClientConnect
  \/ \E r \in ReqIds, timeout \in BOOLEAN, full \in BOOLEAN : ClientSend(r, timeout, full)
  \/ \E r \in ReqIds : ServerReplies(r)
  \/ \E r \in ReqIds : ClientReply(r)
  \/ \E r \in ReqIds : ClientTimerFires(r)
  \/ \E force \in BOOLEAN : ClientShutdownStart(force)
  \/ ClientShutdownClosed
  \/ ClientDisconnected
  \/ ClientReconnected
  \/ \E ch \in ClientChanIds : ClientChannelClosed(ch)
  \/ ClientChannelRecreated

SpecProducer == InitProducer /\ [][NextProducer]_vars

\* The client on a connection that stays up: requests, replies, timeouts and
\* shutdown().
NextCancel ==
  \/ ClientConnect
  \/ \E r \in ReqIds, timeout \in BOOLEAN, full \in BOOLEAN : ClientSend(r, timeout, full)
  \/ \E r \in ReqIds : ServerReplies(r)
  \/ \E r \in ReqIds : ClientReply(r)
  \/ \E r \in ReqIds : ClientTimerFires(r)
  \/ \E force \in BOOLEAN : ClientShutdownStart(force)
  \/ ClientShutdownClosed

SpecCancel == InitProducer /\ [][NextCancel]_vars

\* One call of a composed chain, for every list of up to MaxMw middlewares
\* and a handler that returns or raises.
InitCompose ==
  /\ InitCore
  /\ callers = <<>>
  /\ enabled = TRUE
  /\ maxAttempts = Infinity
  /\ startsLeft = 0
  /\ InitClient
  /\ InitServer
  /\ chain \in {[NoChain EXCEPT !.middlewares = ms, !.handler = h] :
                  ms \in MiddlewareLists, h \in {"returns", "raises"}}
  /\ singleton = NoSingleton
  /\ gs = NoGs
  /\ lsn = NoLsn

NextCompose ==
  \/ ComposedCall
  \/ ChainStep
  \/ ChainResume
  \/ ChainSettle

SpecCompose == InitCompose /\ [][NextCompose]_vars

\* The same with middlewares that may call next() a second time.
InitComposeTwice ==
  /\ InitCore
  /\ callers = <<>>
  /\ enabled = TRUE
  /\ maxAttempts = Infinity
  /\ startsLeft = 0
  /\ InitClient
  /\ InitServer
  /\ chain \in {[NoChain EXCEPT !.middlewares = ms, !.handler = h] :
                  ms \in UNION {[1..n -> BehavioursTwice] : n \in 0..MaxMw},
                  h \in {"returns", "raises"}}
  /\ singleton = NoSingleton
  /\ gs = NoGs
  /\ lsn = NoLsn

SpecComposeTwice == InitComposeTwice /\ [][NextCompose]_vars

\* The singleton of the connection manager: getInstance() for two uris and
\* resetInstance().
InitSingleton ==
  /\ InitCore
  /\ InitUtil
  /\ callers = <<>>
  /\ enabled = TRUE
  /\ maxAttempts = Infinity
  /\ startsLeft = 0
  /\ InitClient
  /\ InitServer

NextSingleton ==
  \/ \E uri \in Uris : GetInstance(uri)
  \/ ResetInstance

SpecSingleton == InitSingleton /\ [][NextSingleton]_vars

\* One server whose listen() is called up to MaxListens times, one call
\* after the other, while its connection and its channels come and go.
NextListening ==
  \/ LsnListen
  \/ \E t \in ListenTasks : LsnConsumeOk(t)
  \/ \E t \in ListenTasks : LsnConsumeRejected(t)
  \/ LsnConnectionLost
  \/ LsnReconnected
  \/ LsnRecreateNext
  \/ \E ch \in ListenChanIds : LsnChannelClosed(ch)

SpecListening == InitSingleton /\ [][NextListening]_vars

\* One call of performGracefulShutdown, with or without a server, with up
\* to MaxClients clients, with or without onShutdown.
NextGraceful ==
  \/ \E uri \in Uris : GetInstance(uri)
  \/ \E server \in BOOLEAN, clients \in 0..MaxClients, onShutdown \in BOOLEAN :
       GsCall(server, clients, onShutdown)
  \/ \E r \in ServerResults : GsServerDone(r)
  \/ \E i \in ClientIndexes, n \in ShutdownCounts : GsClientDone(i, n)
  \/ GsHookDone

SpecGraceful == InitSingleton /\ [][NextGraceful]_vars

\* The server while it listens on a channel that stays, under every retry
\* configuration.
InitRetry ==
  /\ InitCore
  /\ InitUtil
  /\ callers = <<>>
  /\ enabled = TRUE
  /\ maxAttempts = Infinity
  /\ startsLeft = 0
  /\ InitClient
  /\ InitServerState
  /\ publishLimit = MaxMsg
  /\ defaultRetryOptions \in [maxRetries : 0..MaxRetries, enabled : BOOLEAN]
  /\ handlerOptions \in [maxRetries : {-1, 1}, retryEnabled : {"unset", "true", "false"}]

NextRetry ==
  \/ ServerListen
  \/ \E k \in RoutingKeys, valid \in BOOLEAN : Publish(k, valid)
  \/ \E c \in ServerChanIds : Deliver(c)
  \/ \E d \in DeliveryIds, raises \in BOOLEAN : HandlerDone(d, raises)

SpecRetry == InitRetry /\ [][NextRetry]_vars

\* The server with shutdown and the loss and recovery of its channel, with
\* retries on or off.
InitConsumer ==
  /\ InitCore
  /\ InitUtil
  /\ callers = <<>>
  /\ enabled = TRUE
  /\ maxAttempts = Infinity
  /\ startsLeft = 0
  /\ InitClient
  /\ InitServerState
  /\ publishLimit = MaxMsgConsumer
  /\ defaultRetryOptions \in [maxRetries : {1}, enabled : BOOLEAN]
  /\ handlerOptions = [maxRetries |-> -1, retryEnabled |-> "unset"]

NextConsumer ==
  \/ ServerListen
  \/ \E k \in RoutingKeys, valid \in BOOLEAN : Publish(k, valid)
  \/ \E c \in ServerChanIds : Deliver(c)
  \/ \E d \in DeliveryIds, raises \in BOOLEAN : HandlerDone(d, raises)
  \/ \E force \in BOOLEAN : ServerShutdownStart(force, DefaultTimeout)
  \/ ServerCancelDone
  \/ \E to \in BOOLEAN : ServerWaitOver(to)
  \/ ServerShutdownClosed
  \/ ServerDisconnected
  \/ ServerReconnected
  \/ ServerChannelRecreated
  \/ \E c \in ServerChanIds : ServerConsumeSettled(c)

SpecConsumer == InitConsumer /\ [][NextConsumer]_vars


(***************************************************************************)
(* The server on a channel that stays: shutdown() with every option        *)
(***************************************************************************)
InitShutdown ==
  /\ InitCore
  /\ InitUtil
  /\ callers = <<>>
  /\ enabled = TRUE
  /\ maxAttempts = Infinity
  /\ startsLeft = 0
  /\ InitClient
  /\ InitServerState
  /\ publishLimit = MaxMsg
  /\ defaultRetryOptions = [maxRetries |-> 3, enabled |-> FALSE]
  /\ handlerOptions = [maxRetries |-> -1, retryEnabled |-> "unset"]

NextShutdown ==
  \/ ServerListen
  \/ \E k \in RoutingKeys, valid \in BOOLEAN : Publish(k, valid)
  \/ \E c \in ServerChanIds : Deliver(c)
  \/ \E d \in DeliveryIds, raises \in BOOLEAN : HandlerDone(d, raises)
  \/ \E force \in BOOLEAN, timeout \in Timeouts : ServerShutdownStart(force, timeout)
  \/ ServerCancelDone
  \/ \E to \in BOOLEAN : ServerWaitOver(to)
  \/ ServerShutdownClosed

SpecShutdown == InitShutdown /\ [][NextShutdown]_vars


(***************************************************************************)
(* Claims about the connection manager                                     *)
(***************************************************************************)

\* C1: once close() has returned (and nobody has asked for a connection or
\* a channel since), the state is disconnected and no reconnect timer is
\* armed, whatever the state was in which close() was called.
C1_AfterCloseDisconnected ==
  closeReturned => (state = "disconnected" /\ armedTimers = 0)


\* The last step emitted 'reconnected'.
EmittedReconnected ==
  /\ Len(events') = Len(events) + 1
  /\ events'[Len(events')].t = "reconnected"

\* C4 as stated: when 'reconnected' is emitted every registered entry has
\* been given a fresh channel whose setup ran to completion, or its setup
\* raised.
C4_ReplacedOrSetupRaised ==
  [][EmittedReconnected =>
       \A r \in registeredChannels' : recov'[r] \in {"done", "setupFailed"}]_vars

\* C4 amended: when 'reconnected' is emitted every registered entry has been
\* attempted by the recovery that emits it: it was given a fresh channel
\* whose setup ran to completion, or its channel open raised, or its setup
\* raised; a failure on one entry stops neither the remaining entries nor
\* the event.
C4_EveryEntryAttempted ==
  [][EmittedReconnected =>
       \A r \in registeredChannels' : recov'[r] \in {"done", "setupFailed", "openFailed"}]_vars

\* 'reconnected' was emitted after the first entry failed and the second
\* one was recovered.
C4_Witness ==
  /\ Len(events) > 0
  /\ events[Len(events)].t = "reconnected"
  /\ registeredChannels = {1, 2}
  /\ recov[1] = "openFailed"
  /\ recov[2] = "done"

\* C5: a connection that arrives after the per-attempt timer fired is closed
\* exactly once and never becomes the current connection; when the timer
\* fires the caller is failed with the connection-timeout error; an error
\* that arrives after the timer fired changes nothing.
C5_LateConnectionClosedOnce ==
  /\ [](\A c \in late : /\ connCloseCalls[c] = 1
                        /\ connStatus[c] = "closed"
                        /\ c \notin everCurrent
                        /\ connection # c)
  /\ [][/\ latePending' > latePending =>
             (callerError' = TimeoutError /\ connection' = connection)
        /\ latePending' < latePending =>
             UNCHANGED <<coreVars, events, callerError>>]_vars

\* A connect attempt timed out and its connection arrived later.
C5_Witness == late # {} /\ callerError = TimeoutError

\* C6: after unregisterChannel(c) no channel is opened and no setup is run
\* again for the entry c was registered with.
C6_NeverResurrected == resurrected = {}

\* C9: with reconnect enabled, maxAttempts = N >= 1 and every connect attempt
\* failing with a recoverable error, the events are 'reconnecting' with the
\* attempt numbers 1..N in order, then one max-attempts error, and after the
\* error no connect attempt is pending and no timer is armed.
AllAttemptsFailedRecoverably ==
  /\ everCurrent = {}
  /\ ~closeRequested
  /\ \A i \in 1..Len(events) :
       events[i].t = "error" => events[i].e = MaxAttemptsError

ExpectedEvent(i) ==
  IF i <= maxAttempts THEN Ev("reconnecting", i, "")
  ELSE Ev("error", 0, MaxAttemptsError)

C9_ReconnectingThenMaxError ==
  (enabled /\ maxAttempts \in 1..MaxN /\ AllAttemptsFailedRecoverably) =>
    /\ Len(events) <= maxAttempts + 1
    /\ \A i \in 1..Len(events) : events[i] = ExpectedEvent(i)
    /\ Len(events) = maxAttempts + 1 =>
         (armedTimers = 0 /\ \A s \in SlotIds : slots[s].phase = "idle")

\* Two reconnect attempts failed and the max-attempts error was emitted.
C9_Witness ==
  /\ enabled /\ maxAttempts = 2 /\ AllAttemptsFailedRecoverably
  /\ Len(events) = 3
  /\ events[3].t = "error"

\* C10: with reconnect enabled and maxAttempts = 0 a recoverable failure of
\* a connect attempt emits the max-attempts error; no 'reconnecting' event
\* is ever emitted and no timer is ever armed.
RecoverableConnectFailure ==
  \E s \in SlotIds :
    /\ slots[s].phase = "pending" /\ slots[s].kind = "connect"
    /\ slots'[s].phase = "idle"
    /\ connStatus' = connStatus
    /\ ~isNonRecoverableError(callerError')

C10_ZeroAttemptsNoReconnecting ==
  /\ []((enabled /\ maxAttempts = 0) =>
          /\ armedTimers = 0
          /\ reconnectTimer # "armed"
          /\ \A i \in 1..Len(events) : events[i].t # "reconnecting")
  /\ [][(enabled /\ maxAttempts = 0 /\ RecoverableConnectFailure) =>
          events' = Append(events, Ev("error", 0, MaxAttemptsError))]_vars

\* The first connect attempt failed recoverably under maxAttempts = 0.
C10_Witness ==
  /\ enabled /\ maxAttempts = 0
  /\ callerError \in {TimeoutError, ConnectionForced}
  /\ events = <<Ev("error", 0, MaxAttemptsError)>>


(***************************************************************************)
(* Claims about the client                                                 *)
(***************************************************************************)

\* Nothing can settle request r any more: it has no timer, the registry that
\* shutdown() rejects from does not hold it, and no reply can reach it.
Lost(r) ==
  /\ settled[r] = <<>>
  /\ r \notin pendingRequests
  /\ timers[r] # "armed"
  /\ r \notin responseListeners \/ clientChans[replyTo[r]] # "open"

\* C2: every PendingRequest whose publish was accepted is settled exactly
\* once, by a reply, by its timeout or by the rejection of shutdown: never
\* twice, never by anything else, and never left so that nothing can settle
\* it any more.
C2_SettledExactlyOnce ==
  \A r \in ReqIds :
    requests[r] = "accepted" =>
      /\ Len(settled[r]) <= 1
      /\ \A i \in 1..Len(settled[r]) : settled[r][i] \in {"reply", "timeout", "shutdown"}
      /\ ~Lost(r)

(***************************************************************************)
(* Claims about the server                                                 *)
(***************************************************************************)

\* C3: every delivery handed to the server is acked exactly once: never
\* twice, and once its dispatch is over it has been acked.
C3_AckedExactlyOnce ==
  \A d \in DeliveryIds :
    /\ deliveries[d].acks <= 1
    /\ deliveries[d].status \in {"done", "crashed", "skipped"} =>
         (deliveries[d].acks = 1 /\ deliveries[d].broker = "acked")

\* C7: for a delivery with routing key k and retry count c whose handler
\* raised while retries are enabled and c is below maxRetries, exactly one
\* message was published, with routing key k, x-retry-count = c + 1,
\* x-original-routing-key = k and the payload of the delivery, and the
\* delivery was acked.
C7_RetryPublished ==
  \A d \in DeliveryIds :
    LET m == deliveries[d].msg
        c == IF m.rc = -1 THEN 0 ELSE m.rc IN
    (/\ deliveries[d].status \notin {"unused", "running"}
     /\ deliveries[d].raised
     /\ RetryOptions.enabled
     /\ c < RetryOptions.maxRetries) =>
      /\ retryPublished[d] =
           <<[id |-> m.id, valid |-> m.valid, key |-> m.key, rc |-> c + 1, ork |-> m.key]>>
      /\ deliveries[d].acks = 1
      /\ deliveries[d].broker = "acked"

\* The handler raised on a message that was itself a retry, and the next
\* retry was published.
C7_Witness ==
  \E d \in DeliveryIds :
    /\ deliveries[d].status = "done" /\ deliveries[d].raised
    /\ deliveries[d].msg.rc = 1
    /\ retryPublished[d] # <<>>

\* The handler never returned normally for message m.
AlwaysRaises(m) ==
  \A d \in DeliveryIds :
    (deliveries[d].msg.id = m /\ deliveries[d].status = "done") => deliveries[d].raised

DlqCopies(m) == {i \in 1..Len(dlq) : dlq[i].id = m}
RetryPublishes(m) == {d \in DeliveryIds : deliveries[d].msg.id = m /\ retryPublished[d] # <<>>}
StillQueued(m) ==
  \/ \E i \in 1..Len(mainQueue) : mainQueue[i].id = m
  \/ \E d \in DeliveryIds : deliveries[d].msg.id = m /\ deliveries[d].status = "running"

\* What C8 says of message m, the DLQ copy being expected with the header
\* x-retry-count = rc.
RetriedThenDeadLettered(m, rc) ==
  LET N == RetryOptions.maxRetries IN
  /\ Len(handlerCalls[m]) <= N + 1
  /\ \A i \in 1..Len(handlerCalls[m]) : handlerCalls[m][i] = i - 1
  /\ Cardinality(RetryPublishes(m)) <= N
  /\ \A d \in RetryPublishes(m) : Len(retryPublished[d]) = 1
  /\ Cardinality(DlqCopies(m)) <= 1
  /\ DlqCopies(m) # {} =>
       /\ Len(handlerCalls[m]) = N + 1
       /\ Cardinality(RetryPublishes(m)) = N
       /\ \A i \in DlqCopies(m) : dlq[i].rc = rc
       /\ ~StillQueued(m)

ConnectAttemptFails(k, e) ==
  /\ callers[k].st = "attempt"
  /\ slots[callers[k].slot].phase = "pending"
  /\ slots'[callers[k].slot].phase = "idle"
  /\ connStatus' = connStatus
  /\ callerError' = e

\* C11: a connect attempt failing with a terminal error (a terminal reply
\* code or an authentication message) rejects the caller of getConnection()
\* with that error, emits that error on the bus, leaves the state
\* 'disconnected' and schedules no reconnect: no 'reconnecting' event, no
\* timer, whatever the reconnect options are.
C11_TerminalRejectsAndEmits ==
  [][\A k \in CallerIds, e \in ConnectErrors \cup {TimeoutError} :
       (ConnectAttemptFails(k, e) /\ isNonRecoverableError(e)) =>
          /\ callers'[k].st = "rejected"
          /\ callers'[k].err = e.msg
          /\ events' = Append(events, Ev("error", 0, e.msg))
          /\ state' = "disconnected"
          /\ armedTimers' = armedTimers
          /\ reconnectTimer' = reconnectTimer
          /\ reconnectAttempt' = reconnectAttempt]_vars

\* With reconnect enabled, the first call was rejected with an authentication
\* error that carries no reply code.
C11_Witness ==
  /\ enabled
  /\ callers[1].kind = "starter"
  /\ callers[1].st = "rejected"
  /\ callers[1].err = AuthenticationFailed.msg
  /\ events = <<Ev("error", 0, AuthenticationFailed.msg)>>
  /\ state = "disconnected"
  /\ armedTimers = 0

\* C12: with reconnect disabled a recoverable failure of a connect attempt
\* rejects the caller of getConnection() with the error and leaves the state
\* 'disconnected'; no timer is ever armed and no 'reconnecting' event is
\* ever emitted.
C12_DisabledPropagates ==
  /\ [](~enabled =>
          /\ armedTimers = 0
          /\ reconnectTimer # "armed"
          /\ \A i \in 1..Len(events) : events[i].t # "reconnecting")
  /\ [][\A k \in CallerIds, e \in ConnectErrors \cup {TimeoutError} :
          (~enabled /\ ConnectAttemptFails(k, e) /\ ~isNonRecoverableError(e)) =>
             /\ callers'[k].st = "rejected"
             /\ callers'[k].err = e.msg
             /\ state' = "disconnected"
             /\ events' = events]_vars

\* With reconnect disabled, the first call was rejected with a recoverable
\* error.
C12_Witness ==
  /\ ~enabled
  /\ callers[1].kind = "starter"
  /\ callers[1].st = "rejected"
  /\ callers[1].err \in {TimeoutError.msg, ConnectionForced.msg}
  /\ state = "disconnected"
  /\ events = <<>>

\* The connectWithTimeout calls that are awaited.
AttemptsInProgress == {s \in SlotIds : slots[s].phase = "pending"}

Pending(k) == callers[k].st \in {"attempt", "listening"}

\* A connection is being established: an attempt is awaited or a reconnect
\* timer is armed.
Establishing == AttemptsInProgress # {} \/ armedTimers > 0

\* C14: every getConnection() call is settled once the establishment it
\* waits for is over: no promise is pending while no attempt is awaited and
\* no reconnect timer is armed.
C14_SettledWhenOver == \A k \in CallerIds : Pending(k) => Establishing

(***************************************************************************)
(* Claims about shutdown() of the server                                   *)
(***************************************************************************)

\* shutdown(): the object it returns, lines 316-320
ShutdownResult == [success |-> pendingCount = 0, pendingCount |-> pendingCount,
                   timedOut |-> timedOut]

\* shutdown({force: f, timeout: t}) stops waiting for the handlers in this
\* step: it goes on to close the channel, or returns.
WaitEnds(f, t) ==
  /\ serverPc' \in {"closing", "returned"}
  /\ \/ ServerShutdownStart(f, t)
     \/ ServerCancelDone /\ f = serverForce /\ t = serverTimeout
     \/ (\E to \in BOOLEAN : ServerWaitOver(to)) /\ f = serverForce /\ t = serverTimeout

\* C15: the result of shutdown() has pendingCount = the number of handlers
\* in flight when the wait ended and success = (pendingCount = 0); timedOut
\* is true exactly when an unforced wait ended with handlers left, which a
\* timeout of 0 does at once; force = true gives timedOut = false.  The
\* result is what the call returns after the channel is closed.
C15_ShutdownResult ==
  /\ [][\A f \in BOOLEAN, t \in Timeouts :
          WaitEnds(f, t) =>
             /\ ShutdownResult'.pendingCount = Cardinality(inFlightHandlers)
             /\ ShutdownResult'.success <=> (inFlightHandlers = {})
             /\ ShutdownResult'.timedOut <=> (~f /\ inFlightHandlers # {})
             /\ (t = 0 /\ ~f /\ inFlightHandlers # {}) => ShutdownResult'.timedOut
             /\ f => ~ShutdownResult'.timedOut]_vars
  /\ [][serverPc = "closing" => ShutdownResult' = ShutdownResult]_vars

\* shutdown({timeout: 0}) returned timedOut = true with handlers left.
C15_Witness ==
  /\ serverPc = "returned"
  /\ serverTimeout = 0 /\ ~serverForce
  /\ ShutdownResult.timedOut
  /\ ShutdownResult.pendingCount > 0
  /\ ~ShutdownResult.success

\* C16: without force, shutdown() goes on to close the channel, or returns,
\* while handlers are still in flight only if it ran out of time; otherwise
\* no handler is left and its result has pendingCount = 0, success = true
\* and timedOut = false.
C16_WaitsForHandlers ==
  [][\A t \in Timeouts :
       (WaitEnds(FALSE, t) /\ ~timedOut') =>
          /\ inFlightHandlers = {}
          /\ ShutdownResult' = [success |-> TRUE, pendingCount |-> 0, timedOut |-> FALSE]]_vars

\* shutdown() without force is waiting for a handler: the channel is open
\* and the call has not returned.
C16_Witness ==
  /\ serverPc = "wait"
  /\ ~serverForce
  /\ inFlightHandlers # {}
  /\ serverChannel # 0
  /\ serverChans[serverChannel] = "open"

\* C17: a shutdown() call made after an earlier one has returned returns at
\* once with pendingCount = 0.
C17_SecondShutdownReturnsZero ==
  [][\A f \in BOOLEAN, t \in Timeouts :
       (serverPc = "returned" /\ ServerShutdownStart(f, t)) =>
          /\ serverPc' = "returned"
          /\ ShutdownResult'.pendingCount = 0]_vars

\* shutdown() is past a channel.cancel() that the broker confirmed.
ConsumerCancelled == serverPc \in {"wait", "closing", "returned"} /\ consumerTag = 0

\* C18: once shutdown() has cancelled the consumer no delivery starts a
\* handler and no consumer is added on the main queue.
C18_NoDispatchAfterCancel ==
  [][ConsumerCancelled =>
       /\ inFlightHandlers' \subseteq inFlightHandlers
       /\ consumers' \subseteq consumers]_vars

\* ---------------------------------------------------------------------
\* Claims about shutdown() and send() of the client
\* ---------------------------------------------------------------------

\* C19: shutdown() with force = true rejects every request of the registry
\* with 'Client shutdown: request cancelled' as the first and only settlement
\* of its promise, leaves none of them a running timer or a listener, returns
\* the number of requests the registry held at the call (a request whose
\* timer fired before is not among them and keeps its timeout), and empties
\* the registry; a shutdown() that comes after another returns 0.
C19_ForcedShutdownRejectsPending ==
  [][/\ ClientShutdownStart(TRUE) =>
          /\ \A r \in pendingRequests :
               /\ settled[r] = <<>>
               /\ settled'[r] = <<"shutdown">>
               /\ timers'[r] \in {"none", "cleared"}
               /\ r \notin responseListeners'
          /\ \A r \in ReqIds \ pendingRequests : settled'[r] = settled[r]
          /\ \A r \in ReqIds : timers[r] = "fired" => r \notin pendingRequests
          /\ clientPendingCount' = Cardinality(pendingRequests)
          /\ pendingRequests' = {}
     /\ ((\E force \in BOOLEAN : ClientShutdownStart(force)) /\ clientPendingCount >= 0)
          => clientPendingCount' = 0]_vars

\* Two requests were sent; the timer of the first fired, then shutdown()
\* rejected the second, cleared its timer and returned a count of one.
C19_Witness ==
  /\ clientPc = "returned"
  /\ clientPendingCount = 1
  /\ settled = <<<<"timeout">>, <<"shutdown">>>>
  /\ timers = <<"fired", "cleared">>
  /\ pendingRequests = {}

\* shutdown() of the client has returned and none is running.
ClientShutDown == clientPc = "returned"

\* C20: a send() issued while the client has no channel, no reply queue or is
\* marked not connected, and every send() issued after shutdown() has
\* returned, is refused with the not-connected error: it registers no
\* PendingRequest and publishes nothing.
C20_SendRefusedAfterShutdown ==
  [][\A r \in ReqIds :
       ((\E timeout \in BOOLEAN, full \in BOOLEAN : ClientSend(r, timeout, full))
          /\ (clientChannel = 0 \/ replyQueue = 0 \/ ~isConnected \/ ClientShutDown))
       => /\ requests'[r] = "refused"
          /\ UNCHANGED <<pendingRequests, repliesLeft, settled>>]_vars

\* C21: a reply whose correlation id has no PendingRequest in the registry is
\* acked and dropped: it is taken from the reply queue, settles no promise
\* and leaves the registry, the timers and the listeners of every request as
\* they were.
C21_UnmatchedReplyDropped ==
  [][\A r \in ReqIds :
       (ClientReply(r) /\ r \notin pendingRequests)
       => /\ replyBox'[r] = replyBox[r] - 1
          /\ UNCHANGED <<settled, pendingRequests, timers, responseListeners>>]_vars

\* The timer of the first request fired, then the one reply the server had
\* sent for it was consumed; a second request is still pending.
C21_Witness ==
  /\ clientPc = "idle"
  /\ settled[1] = <<"timeout">>
  /\ repliesLeft[1] = MaxReplies - 1
  /\ replyBox[1] = 0
  /\ pendingRequests = {2}

\* ---------------------------------------------------------------------
\* Claims about processMessage() of the server
\* ---------------------------------------------------------------------

\* The head of the main queue cannot be dispatched: no handler is registered
\* for its routing key, or its payload is not JSON.
Undispatchable(m) == m.key \notin HandlerKeys \/ ~m.valid

\* C22: a delivery with no handler for its routing key, or with a payload
\* that is not JSON, is acked once; no handler is called for it, and neither
\* a retry message nor a DLQ copy is published, whatever the retry options.
C22_UndispatchableAcked ==
  [][\A c \in ServerChanIds :
       (Deliver(c) /\ Undispatchable(Head(mainQueue)))
       => LET d == FreshDelivery IN
          /\ deliveries'[d].status = "done"
          /\ deliveries'[d].acks = 1
          /\ deliveries'[d].broker = "acked"
          /\ mainQueue' = Tail(mainQueue)
          /\ UNCHANGED <<handlerCalls, inFlightHandlers, dlq, retryPublished>>]_vars

\* With retries enabled, a message for "work" that is not JSON and a message
\* for a key without handler were delivered: both are acked, no handler ran,
\* nothing was published again.
C22_Witness ==
  /\ RetryOptions.enabled /\ RetryOptions.maxRetries > 0
  /\ \E d, e \in DeliveryIds :
       /\ deliveries[d].status = "done" /\ deliveries[d].broker = "acked"
       /\ deliveries[d].msg.key \in HandlerKeys /\ ~deliveries[d].msg.valid
       /\ deliveries[e].status = "done" /\ deliveries[e].broker = "acked"
       /\ deliveries[e].msg.key \notin HandlerKeys
  /\ \A i \in MsgIds : handlerCalls[i] = <<>>
  /\ dlq = <<>>
  /\ mainQueue = <<>>

\* C23: when retries are disabled for the route (by the retryEnabled option
\* of the handler when it is given, else by the default of the server), a
\* delivery whose handler raised has exactly one copy in the DLQ, with the
\* payload and the headers of the delivery; it was acked once and no retry
\* message was published for it.
C23_DisabledGoesToDLQ ==
  \A d \in DeliveryIds :
    LET m == deliveries[d].msg IN
    (/\ deliveries[d].status \notin {"unused", "running"}
     /\ deliveries[d].raised
     /\ ~RetryOptions.enabled)
    => /\ Cardinality({i \in DOMAIN dlq : dlq[i] = m}) = 1
       /\ retryPublished[d] = <<>>
       /\ deliveries[d].acks = 1
       /\ deliveries[d].broker = "acked"

\* The server retries by default, the handler was registered with
\* retryEnabled: false and raised on the first delivery of a message.
C23_Witness ==
  /\ defaultRetryOptions.enabled /\ defaultRetryOptions.maxRetries > 0
  /\ handlerOptions.retryEnabled = "false"
  /\ \E d \in DeliveryIds :
       /\ deliveries[d].status = "done" /\ deliveries[d].raised
       /\ dlq = <<deliveries[d].msg>>
       /\ retryPublished[d] = <<>>

\* ---------------------------------------------------------------------
\* Claims about the middleware chain
\* ---------------------------------------------------------------------

\* The element numbered el (a middleware, or the handler) calls next.
Proceeds(el) ==
  el < Len(chain.middlewares) /\ chain.middlewares[el + 1] \in {"pass", "raiseAfter"}

\* The element numbered el throws.
Raises(el) ==
  IF el < Len(chain.middlewares)
  THEN chain.middlewares[el + 1] \in {"raise", "raiseAfter"}
  ELSE chain.handler = "raises"

\* C24: the chain calls the middlewares in registration order and then the
\* handler, each one when the one before it has called next; after a
\* middleware that returns or throws without calling next nothing more is
\* called; the call of the chain rejects when one of the elements called
\* has thrown, and resolves otherwise.
C24_ChainInOrder ==
  /\ \A k \in DOMAIN chain.calls : chain.calls[k] = k - 1
  /\ \A k \in DOMAIN chain.calls : k > 1 => Proceeds(chain.calls[k - 1])
  /\ chain.result \in {"resolved", "rejected"} =>
       /\ chain.calls # <<>>
       /\ ~Proceeds(chain.calls[Len(chain.calls)])
       /\ chain.result = "rejected" <=> \E k \in DOMAIN chain.calls : Raises(chain.calls[k])

\* Three middlewares, the second of which throws without calling next: the
\* third and the handler were not called, and the call rejected.
C24_Witness ==
  /\ chain.middlewares = <<"pass", "raise", "pass">>
  /\ chain.calls = <<0, 1>>
  /\ chain.result = "rejected"

\* ---------------------------------------------------------------------
\* Claims about performGracefulShutdown and the singleton
\* ---------------------------------------------------------------------

\* What a call with the options of g must have called and seen settle, in
\* order, when the shutdown() calls of the clients settled in the order done.
GsOrder(g, done) ==
  (IF g.server THEN <<Event("server.shutdown", 0), Event("server.done", 0)>> ELSE <<>>)
    \o ClientCalls(g.clients)
    \o done
    \o (IF g.onShutdown THEN <<Event("onShutdown", 0), Event("onShutdown.done", 0)>> ELSE <<>>)
    \o <<Event("resetInstance", 0)>>

\* C25: when performGracefulShutdown returns, the shutdown() of the server
\* had settled before the shutdown() of any client was called, all of these
\* had settled before onShutdown was called, onShutdown had settled before
\* resetInstance(), which leaves no instance; totalPending is the sum of the
\* pendingCount of the server and of every client, and timedOut is the
\* server's.
C25_ShutdownOrder ==
  [][(gs.pc # "returned" /\ gs'.pc = "returned") =>
       LET g == gs'
           first == (IF g.server THEN 2 ELSE 0) + g.clients + 1
           done == SubSeq(g.log, first, first + g.clients - 1) IN
       /\ g.log = GsOrder(g, done)
       /\ {done[k] : k \in DOMAIN done} = {Event("client.done", i) : i \in 1..g.clients}
       /\ singleton'.instance = 0
       /\ g.totalPending = (IF g.server THEN g.serverResult.pendingCount ELSE 0)
                             + Sum(g.clientResults, 1..g.clients)
       /\ g.timedOut = (g.server /\ g.serverResult.timedOut)]_vars

\* A server that timed out with one handler left, two clients with one
\* pending request each, and an onShutdown: the call returned a total of 3
\* and reset the instance that existed.
C25_Witness ==
  /\ gs.pc = "returned"
  /\ gs.server /\ gs.clients = 2 /\ gs.onShutdown
  /\ gs.timedOut
  /\ gs.totalPending = 3
  /\ singleton.resets = 1
  /\ singleton.instance = 0

\* C26: every call of getInstance(uri) returned a manager constructed with
\* that uri; two calls with the same uri and no reset between them returned
\* the same manager; a call after a reset returned a manager no earlier call
\* had returned.
C26_SingletonPerUri ==
  /\ \A k \in DOMAIN singleton.got :
       singleton.uri[singleton.got[k].instance] = singleton.got[k].uri
  /\ \A j, k \in DOMAIN singleton.got :
       (singleton.got[j].uri = singleton.got[k].uri
          /\ singleton.got[j].resets = singleton.got[k].resets)
       => singleton.got[j].instance = singleton.got[k].instance
  /\ \A j, k \in DOMAIN singleton.got :
       singleton.got[j].resets < singleton.got[k].resets
       => singleton.got[j].instance # singleton.got[k].instance

\* ---------------------------------------------------------------------
\* Claims about recovery
\* ---------------------------------------------------------------------

\* The events of es from the last 'disconnected' on.
RECURSIVE SinceDisconnected(_)
SinceDisconnected(es) ==
  IF es = <<>> THEN <<>>
  ELSE IF es[Len(es)].t = "disconnected" THEN <<es[Len(es)]>>
  ELSE Append(SinceDisconnected(SubSeq(es, 1, Len(es) - 1)), es[Len(es)])

C28_OnlyThatChannelRecreated ==
  [][/\ \A ch \in ChanIds :
          (ChannelClosed(ch) /\ WatchdogStarts /\ chanReg[ch] \in registeredChannels) =>
            /\ state' = "connected"
            /\ wd'[chanReg[ch]] = "open"
            /\ wdConn'[chanReg[ch]] = chanConn[ch]
            /\ \A x \in RegIds \ {chanReg[ch]} : wd'[x] = wd[x]
            /\ UNCHANGED <<events, connection, regChannel, recov, slots>>
     /\ \A r \in RegIds :
          WdOpenOk(r) =>
            /\ chanStatus[regChannel'[r]] = "unused"
            /\ chanStatus'[regChannel'[r]] = "open"
            /\ chanConn'[regChannel'[r]] = wdConn[r]
            /\ wd'[r] = IF regSetup[r] THEN "setup" ELSE "idle"
            /\ \A x \in RegIds \ {r} : regChannel'[x] = regChannel[x] /\ wd'[x] = wd[x]
            /\ UNCHANGED <<state, events, connection, recov, slots>>]_vars

\* The channel of one of two registered entries closed and that entry has a
\* fresh channel on the same connection with its setup running, while the
\* other entry still has its first channel and nothing was emitted.
C28_Witness ==
  /\ state = "connected"
  /\ \A i \in 1..Len(events) : events[i].t \notin {"disconnected", "reconnecting"}
  /\ \E r \in registeredChannels, x \in registeredChannels, c \in ChanIds :
       /\ x # r
       /\ chanReg[c] = r /\ chanStatus[c] = "closed"
       /\ regChannel[r] \notin {0, c}
       /\ chanStatus[regChannel[r]] = "open"
       /\ chanConn[regChannel[r]] = connection /\ chanConn[c] = connection
       /\ wd[r] = "setup"
       /\ wd[x] = "idle" /\ regChannel[x] # 0 /\ chanStatus[regChannel[x]] = "open"
       /\ \A d \in ChanIds : chanReg[d] = x => d = regChannel[x]

(***************************************************************************)
(* Claims about close() and the end of the reconnect attempts              *)
(***************************************************************************)
\* C29: once close() has been requested, isClosing is true and never becomes
\* false again.
C29_ClosingStaysTrue == closeRequested => isClosing

\* C30: when a reconnect attempt fails with a recoverable error and the
\* attempt counter has reached maxAttempts, the state is disconnected at the
\* moment the max-attempts error is emitted.
C30_DisconnectedAtMaxAttempts ==
  [][\A s \in SlotIds :
       (/\ AttemptReject(s, ConnectionForced)
        /\ state = "reconnecting"
        /\ events' = Append(events, Ev("error", 0, MaxAttemptsError)))
       => state' = "disconnected"]_vars

(***************************************************************************)
(* Claims about the reconnect timer and the attempt counter                *)
(***************************************************************************)
\* C31: in every reachable state at most one reconnect timer is armed and
\* not yet fired.
C31_AtMostOneTimer == armedTimers <= 1

\* A reconnect timer is armed while a connect attempt is still awaited: the
\* next scheduleReconnect() finds a timer to clear.
C31_Witness ==
  /\ armedTimers = 1
  /\ reconnectTimer = "armed"
  /\ \E s \in SlotIds : slots[s].phase = "pending"

\* C32: reconnectAttempt is 0 immediately after every transition into
\* connected, and the 'reconnecting' event emitted when the current
\* connection of a connected manager is lost carries the number 1.
C32_CounterResetOnConnected ==
  [][/\ (state' = "connected" /\ (state # "connected" \/ connection' # connection))
          => reconnectAttempt' = 0
     /\ \A c \in ConnIds, e \in CloseErrors :
          (/\ ConnectionClosed(c, e)
           /\ state = "connected" /\ c = connection
           /\ Len(events') > Len(events)
           /\ events'[Len(events')].t = "reconnecting")
          => events'[Len(events')].n = 1]_vars

\* A reconnect attempt succeeded, the connection was lost again and the
\* 'reconnecting' event that follows carries the number 1.
C32_Witness ==
  /\ Len(events) >= 4
  /\ events[Len(events)] = Ev("reconnecting", 1, "")
  /\ events[Len(events) - 1].t = "disconnected"
  /\ events[Len(events) - 2].t = "reconnected"
  /\ \E i \in 1..(Len(events) - 3) : events[i].t = "reconnecting"

(***************************************************************************)
(* Claims about the in-flight handlers of the server                       *)
(***************************************************************************)
\* C33: the entry of a dispatch is in inFlightHandlers when its middleware
\* chain begins to execute, it is removed only after an ack was issued for
\* the delivery, whatever the outcome, and inFlightHandlers holds the
\* dispatches that are running and no other.
C33_InFlightFromStartToAck ==
  /\ \A d \in DeliveryIds :
       /\ deliveries[d].status = "running" => deliveries[d].tracked
       /\ deliveries[d].status \in {"done", "crashed"} => deliveries[d].acks >= 1
  /\ inFlightHandlers = {d \in DeliveryIds : deliveries[d].status = "running"}

(***************************************************************************)
(* Claims about the route of a retry message                               *)
(***************************************************************************)
\* C34: the retry message published after a handler failure is routed to
\* the retry queue and not to the main queue: it is not in the main queue,
\* ready for the handler, in the step that publishes it.
C34_RetryPassesRetryQueue ==
  [][\A d \in DeliveryIds :
       (HandlerDone(d, TRUE) /\ retryPublished'[d] # retryPublished[d]) =>
         LET r == retryPublished'[d][Len(retryPublished'[d])] IN
         /\ Routed(r.key) = {"retry"}
         /\ \A i \in 1..Len(mainQueue') : mainQueue'[i] # r]_vars

(***************************************************************************)
(* Claims about the channel of an ack                                      *)
(***************************************************************************)
\* C35: every ack for a delivery is issued on the channel that delivered
\* it, also when the server's channel was replaced or dropped while the
\* handler was running.
C35_AckOnDeliveringChannel ==
  [][\A d \in DeliveryIds :
       deliveries'[d].acks > deliveries[d].acks =>
         serverChannel = deliveries'[d].chan]_vars

(***************************************************************************)
(* Claims about the 'reconnected' event                                    *)
(***************************************************************************)
\* C36: whenever 'reconnected' is emitted the state is connected and the
\* manager holds a connection that is open.
C36_ReconnectedMeansConnected ==
  [][EmittedReconnected =>
       /\ state' = "connected"
       /\ connection' # 0
       /\ connStatus'[connection'] = "open"]_vars

(***************************************************************************)
(* Claims about the consumers of the server                                *)
(***************************************************************************)
\* C37: at most one consumer of the main queue is active on the server's
\* current channel, and once no consume call awaits its reply consumerTag is
\* the tag of that consumer.
C37_OneConsumerOnCurrentChannel ==
  LET onCurrent == {c \in lsn.active : c.chan = lsn.channel} IN
  /\ Cardinality(onCurrent) <= 1
  /\ lsn.tasks = {} => \A c \in onCurrent : c.tag = lsn.consumerTag

(***************************************************************************)
(* Claims about what shutdown() of the client leaves behind                *)
(***************************************************************************)
\* C38: when shutdown() of the client returns, with force true or false,
\* pendingRequests is empty and no timeout timer of a request is armed.
C38_NothingLeftAtReturn ==
  [][(clientPc # "returned" /\ clientPc' = "returned") =>
       /\ pendingRequests' = {}
       /\ \A r \in ReqIds : timers'[r] # "armed"]_vars

(***************************************************************************)
(* Claims about the callers of getConnection() and close()                 *)
(***************************************************************************)
\* C39: a getConnection() call that was waiting when close() was called is
\* settled by it: once close() has returned and neither a connect attempt
\* nor a reconnect timer is left to emit an event, no call is still waiting.
C39_NoWaiterLeftByClose ==
  (closeReturned /\ ~Establishing) => \A k \in CallerIds : ~Pending(k)

(***************************************************************************)
(* Claims about a middleware that calls next() twice                       *)
(***************************************************************************)
\* C40: in one call of the composed chain each middleware and the handler
\* are called at most once, also when a middleware calls next() more than
\* once.
C40_EachCalledAtMostOnce ==
  \A i, j \in DOMAIN chain.calls : chain.calls[i] = chain.calls[j] => i = j

====
